---- MODULE Spec2Model ----
(***************************************************************************)
(* The install protocol of the state-channel runtime: the two roles of     *)
(* INSTALL_PROTOCOL, the free-balance transition they compute, and the     *)
(* host (middleware) that answers their requests.                          *)
(***************************************************************************)
EXTENDS Integers, Sequences, FiniteSets, TLC

VARIABLES
  store,      \* each party's persisted channel (the host's store)
  ini,        \* the engine running INSTALL_PROTOCOL[0]
  rsp,        \* the engine running INSTALL_PROTOCOL[1]
  params,     \* ProtocolParams.Install of the current exchange
  toResp,     \* messages in flight to the responder (IO_SEND_AND_WAIT)
  toInit,     \* messages in flight to the initiator (IO_SEND)
  runs,       \* number of exchanges started so far (the processID)
  tr,         \* one application of computeInstallStateChannelTransition
  client      \* the ConnextClient cleaning up its channel on connect

vars == <<store, ini, rsp, params, toResp, toInit, runs, tr, client>>

-----------------------------------------------------------------------------
(* Bounds *)

MaxRuns == 3
MaxAmount == 2
MaxProposals == 3
MaxCopies == 2
MaxApps == 3

-----------------------------------------------------------------------------
(* Identities, addresses, assets *)

multisigOwners == <<"0xA", "0xB">>

Owners == {multisigOwners[1], multisigOwners[2]}

getSignerAddressFromPublicIdentifier(id) ==
  IF id = "xpubA" THEN "0xA" ELSE "0xB"

IdentifierOf(addr) == IF addr = "0xA" THEN "xpubA" ELSE "xpubB"

Other(addr) == IF addr = "0xA" THEN "0xB" ELSE "0xA"

AssetIds == {"ETH", "DAI"}

getAddressFromAssetId(assetId) ==
  IF assetId = "ETH" THEN "0xETH" ELSE "0xDAI"

Tokens == {getAddressFromAssetId(a) : a \in AssetIds}

UNASSIGNED_SEQ_NO == -1

-----------------------------------------------------------------------------
(* JavaScript values *)

\* !!v : null, undefined and the empty string are falsy, other strings truthy
Truthy(v) == v \notin {"null", "undefined", ""}

\* an object literal { [k1]: v1, [k2]: v2 }: a later key overwrites an equal
\* earlier one
EmptyObj == [k \in {} |-> 0]

Put(obj, k, v) == [x \in (DOMAIN obj) \cup {k} |-> IF x = k THEN v ELSE obj[x]]

-----------------------------------------------------------------------------
(* Channel, free balance *)

NoChannel ==
  [multisigAddress |-> "none",
   freeBalance |-> [state |-> EmptyObj, latestVersionNumber |-> 0],
   appInstances |-> EmptyObj,
   proposedAppInstances |-> EmptyObj]

NoApp ==
  [identityHash |-> 0, initiatorIdentifier |-> "none",
   responderIdentifier |-> "none",
   initiatorDeposit |-> 0, responderDeposit |-> 0,
   initiatorDepositAssetId |-> "none", responderDepositAssetId |-> "none"]

getBalance(channel, token, addr) ==
  IF token \in DOMAIN channel.freeBalance.state
     /\ addr \in DOMAIN channel.freeBalance.state[token]
  THEN channel.freeBalance.state[token][addr]
  ELSE 0

\* TRUE when the assertion passes
assertSufficientFundsWithinFreeBalance(channel, identifier, token, amount) ==
  getBalance(channel, token, getSignerAddressFromPublicIdentifier(identifier))
    >= amount

Decrement(dec, token, addr) ==
  IF token \in DOMAIN dec /\ addr \in DOMAIN dec[token]
  THEN dec[token][addr]
  ELSE 0

\* StateChannel.installApp: the proposal must be proposed, the free balance
\* must cover the decrement; the proposal moves to appInstances and the free
\* balance is reduced, its version number incremented
installApp(channel, proposal, dec) ==
  LET fb == channel.freeBalance
      h == proposal.identityHash
  IN IF h \notin DOMAIN channel.proposedAppInstances
     THEN [ok |-> FALSE, err |-> "AppNotProposed", channel |-> channel]
     ELSE IF \E t \in DOMAIN dec : \E o \in DOMAIN dec[t] :
                getBalance(channel, t, o) < dec[t][o]
     THEN [ok |-> FALSE, err |-> "InsufficientFunds", channel |-> channel]
     ELSE [ok |-> TRUE, err |-> "",
           channel |->
             [channel EXCEPT
                !.freeBalance =
                  [state |-> [t \in DOMAIN fb.state |->
                                [o \in DOMAIN fb.state[t] |->
                                   fb.state[t][o] - Decrement(dec, t, o)]],
                   latestVersionNumber |-> fb.latestVersionNumber + 1],
                !.appInstances = Put(channel.appInstances, h, proposal),
                !.proposedAppInstances =
                  [x \in (DOMAIN channel.proposedAppInstances) \ {h} |->
                     channel.proposedAppInstances[x]]]]

getAppInstance(channel, h) == channel.appInstances[h]

\* the object literal of the different-asset branch, evaluated for any pair
\* of tokens
computeDecrement_AlwaysTwoEntries(channel, proposal) ==
  LET appInitiatorToken == getAddressFromAssetId(proposal.initiatorDepositAssetId)
      appResponderToken == getAddressFromAssetId(proposal.responderDepositAssetId)
      appInitiatorFb == getSignerAddressFromPublicIdentifier(proposal.initiatorIdentifier)
      appResponderFb == getSignerAddressFromPublicIdentifier(proposal.responderIdentifier)
  IN Put(Put(EmptyObj, appInitiatorToken,
             Put(EmptyObj, appInitiatorFb, proposal.initiatorDeposit)),
         appResponderToken,
         Put(EmptyObj, appResponderFb, proposal.responderDeposit))

\* the same-asset entry filled in app order: owner 0 always the initiator's
\* deposit
computeDecrement_AppOrder(channel, proposal) ==
  LET appInitiatorToken == getAddressFromAssetId(proposal.initiatorDepositAssetId)
      appResponderToken == getAddressFromAssetId(proposal.responderDepositAssetId)
      appInitiatorFb == getSignerAddressFromPublicIdentifier(proposal.initiatorIdentifier)
      appResponderFb == getSignerAddressFromPublicIdentifier(proposal.responderIdentifier)
  IN IF appInitiatorToken # appResponderToken
     THEN Put(Put(EmptyObj, appInitiatorToken,
                  Put(EmptyObj, appInitiatorFb, proposal.initiatorDeposit)),
              appResponderToken,
              Put(EmptyObj, appResponderFb, proposal.responderDeposit))
     ELSE Put(EmptyObj, appResponderToken,
              Put(Put(EmptyObj, multisigOwners[1], proposal.initiatorDeposit),
                  multisigOwners[2], proposal.responderDeposit))

\* the different-asset entries keyed in channel order: owner 0 under the
\* initiator's asset, owner 1 under the responder's
computeDecrement_ChannelOrder(channel, proposal) ==
  LET appInitiatorToken == getAddressFromAssetId(proposal.initiatorDepositAssetId)
      appResponderToken == getAddressFromAssetId(proposal.responderDepositAssetId)
      appInitiatorFb == getSignerAddressFromPublicIdentifier(proposal.initiatorIdentifier)
      sameChannelAndAppOrdering == appInitiatorFb = multisigOwners[1]
  IN IF appInitiatorToken # appResponderToken
     THEN Put(Put(EmptyObj, appInitiatorToken,
                  Put(EmptyObj, multisigOwners[1], proposal.initiatorDeposit)),
              appResponderToken,
              Put(EmptyObj, multisigOwners[2], proposal.responderDeposit))
     ELSE Put(EmptyObj, appResponderToken,
              Put(Put(EmptyObj, multisigOwners[1],
                      IF sameChannelAndAppOrdering
                      THEN proposal.initiatorDeposit
                      ELSE proposal.responderDeposit),
                  multisigOwners[2],
                  IF sameChannelAndAppOrdering
                  THEN proposal.responderDeposit
                  ELSE proposal.initiatorDeposit))

\* tokenIndexedBalanceDecrement of computeInstallStateChannelTransition
computeDecrement(channel, proposal) ==
  LET appInitiatorToken == getAddressFromAssetId(proposal.initiatorDepositAssetId)
      appResponderToken == getAddressFromAssetId(proposal.responderDepositAssetId)
      appInitiatorFb == getSignerAddressFromPublicIdentifier(proposal.initiatorIdentifier)
      appResponderFb == getSignerAddressFromPublicIdentifier(proposal.responderIdentifier)
      sameChannelAndAppOrdering == appInitiatorFb = multisigOwners[1]
  IN IF appInitiatorToken # appResponderToken
     THEN Put(Put(EmptyObj, appInitiatorToken,
                  Put(EmptyObj, appInitiatorFb, proposal.initiatorDeposit)),
              appResponderToken,
              Put(EmptyObj, appResponderFb, proposal.responderDeposit))
     ELSE Put(EmptyObj, appResponderToken,
              Put(Put(EmptyObj, multisigOwners[1],
                      IF sameChannelAndAppOrdering
                      THEN proposal.initiatorDeposit
                      ELSE proposal.responderDeposit),
                  multisigOwners[2],
                  IF sameChannelAndAppOrdering
                  THEN proposal.responderDeposit
                  ELSE proposal.initiatorDeposit))

\* the transition adding the app and debiting the free balance, the proposal
\* left where it was
computeInstallStateChannelTransition_KeepsProposal(channel, proposal) ==
  LET t == installApp(channel, proposal, computeDecrement(channel, proposal))
  IN [t EXCEPT !.channel.proposedAppInstances = channel.proposedAppInstances]

computeInstallStateChannelTransition(channel, proposal) ==
  installApp(channel, proposal, computeDecrement(channel, proposal))

-----------------------------------------------------------------------------
(* Commitments and signatures *)

\* getSetStateCommitment(context, freeBalance).hashToSign(): a deterministic,
\* collision-free function of the signed fields
hashToSign(channel) ==
  [multisigAddress |-> channel.multisigAddress,
   appIdentityHash |-> "freeBalance",
   state |-> channel.freeBalance.state,
   versionNumber |-> channel.freeBalance.latestVersionNumber]

NoHash ==
  [multisigAddress |-> "none", appIdentityHash |-> "none",
   state |-> EmptyObj, versionNumber |-> 0]

\* a hash of something else than h
OtherHash(h) == [h EXCEPT !.versionNumber = @ + 1]

NoSig == [signer |-> "none", hash |-> NoHash]

\* the host's answer to OP_SIGN: the party's own key over the hash
Sign(addr, h) == [signer |-> addr, hash |-> h]

\* ECDSA recovery: the signer when the signature is over h, an unrelated
\* address otherwise
recoverAddress(h, sig) == IF sig.hash = h THEN sig.signer ELSE "0xunknown"

\* TRUE when the assertion passes
assertIsValidSignature(expectedSigner, h, sig) ==
  sig # NoSig /\ recoverAddress(h, sig) = expectedSigner

NoCommitment == [hash |-> NoHash, signatures |-> <<NoSig, NoSig>>]

getSetStateCommitment(channel) ==
  [hash |-> hashToSign(channel), signatures |-> <<NoSig, NoSig>>]

\* SetStateCommitment.addSignatures: each signature is stored at the index of
\* the channel owner it recovers to; a signature of nobody is rejected
addSignatures(commitment, sig1, sig2) ==
  LET who(s) == recoverAddress(commitment.hash, s)
      at(i) == IF who(sig2) = multisigOwners[i] THEN sig2
               ELSE IF who(sig1) = multisigOwners[i] THEN sig1
               ELSE commitment.signatures[i]
  IN IF who(sig1) \notin Owners \/ who(sig2) \notin Owners
     THEN [ok |-> FALSE, commitment |-> commitment]
     ELSE [ok |-> TRUE,
           commitment |-> [commitment EXCEPT !.signatures = <<at(1), at(2)>>]]

-----------------------------------------------------------------------------
(* The proposals the upper layer may hand to the install protocol, and the   *)
(* channel both parties hold once the setup and propose protocols have run   *)

Proposal(h, init, initDep, initAsset, respDep, respAsset) ==
  [identityHash |-> h,
   initiatorIdentifier |-> IdentifierOf(init),
   responderIdentifier |-> IdentifierOf(Other(init)),
   initiatorDeposit |-> initDep, responderDeposit |-> respDep,
   initiatorDepositAssetId |-> initAsset,
   responderDepositAssetId |-> respAsset]

Catalog ==
  <<Proposal(1, "0xA", 1, "ETH", 1, "DAI"),   \* distinct assets, channel order
    Proposal(2, "0xB", 1, "ETH", 2, "ETH"),   \* same asset, reversed, whole balances
    Proposal(3, "0xA", 1, "ETH", 0, "ETH"),   \* same asset, a zero deposit
    Proposal(4, "0xA", 1, "DAI", 0, "ETH"),   \* the initiator lacks the funds
    Proposal(5, "0xB", 1, "DAI", 1, "ETH"),   \* distinct assets, reversed
    Proposal(6, "0xA", 0, "ETH", 0, "DAI")>>  \* never proposed

AppIds == DOMAIN Catalog

ProposedAtStart == {1, 2, 3, 4, 5}

InitialChannel ==
  [multisigAddress |-> "0xM",
   freeBalance |->
     [state |-> [t \in Tokens |->
                   IF t = "0xETH"
                   THEN [o \in Owners |-> IF o = "0xA" THEN 2 ELSE 1]
                   ELSE [o \in Owners |-> IF o = "0xA" THEN 0 ELSE 2]],
      latestVersionNumber |-> 1],
   appInstances |-> EmptyObj,
   proposedAppInstances |-> [h \in ProposedAtStart |-> Catalog[h]]]

-----------------------------------------------------------------------------
(* The engine: one suspended generator per role *)

IdleEngine ==
  [pc |-> "idle", me |-> "none", pre |-> NoChannel, after |-> NoChannel,
   app |-> NoApp, commitment |-> NoCommitment,
   mySig |-> NoSig, theirSig |-> NoSig, sigArgs |-> <<NoSig, NoSig>>,
   validation |-> "pending", verified |-> FALSE,
   requests |-> << >>, error |-> ""]

Quiet(e) == e.pc \in {"idle", "done", "error"}

Throw(e, reason) == [e EXCEPT !.pc = "error", !.error = reason]

Yield(e, pc, request) ==
  [e EXCEPT !.pc = pc, !.requests = Append(@, request)]

Ops(e) == [i \in DOMAIN e.requests |-> e.requests[i].op]

Emitted(e, op) == \E i \in DOMAIN e.requests : e.requests[i].op = op

ValidateResponses == {"null", "", "app definition not whitelisted"}

-----------------------------------------------------------------------------
(* INSTALL_PROTOCOL: the code of each role between two suspension points *)

\* both roles computing the transition before the sufficiency checks
RunToValidate_TransitionFirst(role, me, pre, p, theirSig) ==
  LET proposal == p.proposal
      e == [IdleEngine EXCEPT !.me = me, !.pre = pre, !.theirSig = theirSig]
      t == computeInstallStateChannelTransition(pre, proposal)
  IN IF pre = NoChannel
     THEN Throw(e, "No state channel found for install")
     ELSE IF ~t.ok
     THEN Throw(e, t.err)
     ELSE IF ~assertSufficientFundsWithinFreeBalance(
                pre, proposal.initiatorIdentifier,
                getAddressFromAssetId(proposal.initiatorDepositAssetId),
                proposal.initiatorDeposit)
     THEN Throw(e, "InsufficientFunds")
     ELSE IF ~assertSufficientFundsWithinFreeBalance(
                pre, proposal.responderIdentifier,
                getAddressFromAssetId(proposal.responderDepositAssetId),
                proposal.responderDeposit)
     THEN Throw(e, "InsufficientFunds")
     ELSE LET newAppInstance ==
                getAppInstance(t.channel, proposal.identityHash)
          IN Yield([e EXCEPT !.after = t.channel, !.app = newAppInstance],
                   "validate",
                   [op |-> "OP_VALIDATE", protocol |-> "install",
                    params |-> p, stateChannel |-> pre,
                    appInstance |-> newAppInstance, role |-> role])

\* both roles without the guard on the channel: the first use of the missing
\* channel throws a TypeError
RunToValidate_Unguarded(role, me, pre, p, theirSig) ==
  LET proposal == p.proposal
      e == [IdleEngine EXCEPT !.me = me, !.pre = pre, !.theirSig = theirSig]
  IN IF pre = NoChannel
     THEN Throw(e, "TypeError")
     ELSE IF ~assertSufficientFundsWithinFreeBalance(
                pre, proposal.initiatorIdentifier,
                getAddressFromAssetId(proposal.initiatorDepositAssetId),
                proposal.initiatorDeposit)
     THEN Throw(e, "InsufficientFunds")
     ELSE IF ~assertSufficientFundsWithinFreeBalance(
                pre, proposal.responderIdentifier,
                getAddressFromAssetId(proposal.responderDepositAssetId),
                proposal.responderDeposit)
     THEN Throw(e, "InsufficientFunds")
     ELSE LET t == computeInstallStateChannelTransition(pre, proposal)
          IN IF ~t.ok
             THEN Throw(e, t.err)
             ELSE LET newAppInstance ==
                        getAppInstance(t.channel, proposal.identityHash)
                  IN Yield([e EXCEPT !.after = t.channel,
                                     !.app = newAppInstance],
                           "validate",
                           [op |-> "OP_VALIDATE", protocol |-> "install",
                            params |-> p, stateChannel |-> pre,
                            appInstance |-> newAppInstance, role |-> role])

\* both roles handing the channel after the install to the validation
RunToValidate_PostChannel(role, me, pre, p, theirSig) ==
  LET proposal == p.proposal
      e == [IdleEngine EXCEPT !.me = me, !.pre = pre, !.theirSig = theirSig]
  IN IF pre = NoChannel
     THEN Throw(e, "No state channel found for install")
     ELSE IF ~assertSufficientFundsWithinFreeBalance(
                pre, proposal.initiatorIdentifier,
                getAddressFromAssetId(proposal.initiatorDepositAssetId),
                proposal.initiatorDeposit)
     THEN Throw(e, "InsufficientFunds")
     ELSE IF ~assertSufficientFundsWithinFreeBalance(
                pre, proposal.responderIdentifier,
                getAddressFromAssetId(proposal.responderDepositAssetId),
                proposal.responderDeposit)
     THEN Throw(e, "InsufficientFunds")
     ELSE LET t == computeInstallStateChannelTransition(pre, proposal)
          IN IF ~t.ok
             THEN Throw(e, t.err)
             ELSE LET newAppInstance ==
                        getAppInstance(t.channel, proposal.identityHash)
                  IN Yield([e EXCEPT !.after = t.channel,
                                     !.app = newAppInstance],
                           "validate",
                           [op |-> "OP_VALIDATE", protocol |-> "install",
                            params |-> p, stateChannel |-> t.channel,
                            appInstance |-> newAppInstance, role |-> role])

\* both roles computing the channel after the install from the channel the
\* setup left, not from the one the previous run persisted
RunToValidate_StaleChannel(role, me, pre, p, theirSig) ==
  LET proposal == p.proposal
      e == [IdleEngine EXCEPT !.me = me, !.pre = pre, !.theirSig = theirSig]
  IN IF pre = NoChannel
     THEN Throw(e, "No state channel found for install")
     ELSE IF ~assertSufficientFundsWithinFreeBalance(
                pre, proposal.initiatorIdentifier,
                getAddressFromAssetId(proposal.initiatorDepositAssetId),
                proposal.initiatorDeposit)
     THEN Throw(e, "InsufficientFunds")
     ELSE IF ~assertSufficientFundsWithinFreeBalance(
                pre, proposal.responderIdentifier,
                getAddressFromAssetId(proposal.responderDepositAssetId),
                proposal.responderDeposit)
     THEN Throw(e, "InsufficientFunds")
     ELSE LET t == computeInstallStateChannelTransition(InitialChannel,
                                                        proposal)
          IN IF ~t.ok
             THEN Throw(e, t.err)
             ELSE LET newAppInstance ==
                        getAppInstance(t.channel, proposal.identityHash)
                  IN Yield([e EXCEPT !.after = t.channel,
                                     !.app = newAppInstance],
                           "validate",
                           [op |-> "OP_VALIDATE", protocol |-> "install",
                            params |-> p, stateChannel |-> pre,
                            appInstance |-> newAppInstance, role |-> role])

\* both roles, from entry to the OP_VALIDATE request
RunToValidate(role, me, pre, p, theirSig) ==
  LET proposal == p.proposal
      e == [IdleEngine EXCEPT !.me = me, !.pre = pre, !.theirSig = theirSig]
  IN IF pre = NoChannel
     THEN Throw(e, "No state channel found for install")
     ELSE IF ~assertSufficientFundsWithinFreeBalance(
                pre, proposal.initiatorIdentifier,
                getAddressFromAssetId(proposal.initiatorDepositAssetId),
                proposal.initiatorDeposit)
     THEN Throw(e, "InsufficientFunds")
     ELSE IF ~assertSufficientFundsWithinFreeBalance(
                pre, proposal.responderIdentifier,
                getAddressFromAssetId(proposal.responderDepositAssetId),
                proposal.responderDeposit)
     THEN Throw(e, "InsufficientFunds")
     ELSE LET t == computeInstallStateChannelTransition(pre, proposal)
          IN IF ~t.ok
             THEN Throw(e, t.err)
             ELSE LET newAppInstance ==
                        getAppInstance(t.channel, proposal.identityHash)
                  IN Yield([e EXCEPT !.after = t.channel,
                                     !.app = newAppInstance],
                           "validate",
                           [op |-> "OP_VALIDATE", protocol |-> "install",
                            params |-> p, stateChannel |-> pre,
                            appInstance |-> newAppInstance, role |-> role])

\* role 0 going on whatever the host answered to OP_VALIDATE
Initiating_Validated_IgnoresError(e, error) ==
  LET freeBalanceUpdateData == getSetStateCommitment(e.after)
  IN Yield([e EXCEPT !.validation = error,
                     !.commitment = freeBalanceUpdateData],
           "sign",
           [op |-> "OP_SIGN", hash |-> freeBalanceUpdateData.hash])

\* role 0, resumed with the answer to OP_VALIDATE, up to the OP_SIGN request
Initiating_Validated(e, error) ==
  IF Truthy(error)
  THEN Throw([e EXCEPT !.validation = error], error)
  ELSE LET freeBalanceUpdateData == getSetStateCommitment(e.after)
       IN Yield([e EXCEPT !.validation = error,
                          !.commitment = freeBalanceUpdateData],
                "sign",
                [op |-> "OP_SIGN", hash |-> freeBalanceUpdateData.hash])

\* role 0 sending its signature with IO_SEND
Initiating_Signed_FireAndForget(e, p, processID, mySignature) ==
  Yield([e EXCEPT !.mySig = mySignature],
        "wait",
        [op |-> "IO_SEND",
         msg |-> [processID |-> processID, params |-> p,
                  protocol |-> "install", to |-> p.responderIdentifier,
                  signature |-> mySignature, seq |-> 1]])

\* role 0 asking for the persist before it sends and waits
Initiating_Signed_PersistsFirst(e, p, processID, mySignature) ==
  Yield(Yield([e EXCEPT !.mySig = mySignature],
              "persist",
              [op |-> "PERSIST_APP_INSTANCE", type |-> "CreateInstance",
               channel |-> e.after, appInstance |-> e.app,
               commitment |-> e.commitment]),
        "wait",
        [op |-> "IO_SEND_AND_WAIT",
         msg |-> [processID |-> processID, params |-> p,
                  protocol |-> "install", to |-> p.responderIdentifier,
                  signature |-> mySignature, seq |-> 1]])

\* role 0, resumed with its own signature, up to IO_SEND_AND_WAIT
Initiating_Signed(e, p, processID, mySignature) ==
  Yield([e EXCEPT !.mySig = mySignature],
        "wait",
        [op |-> "IO_SEND_AND_WAIT",
         msg |-> [processID |-> processID, params |-> p,
                  protocol |-> "install", to |-> p.responderIdentifier,
                  signature |-> mySignature, seq |-> 1]])

\* role 0 persisting without the check of the responder's signature
Initiating_Reply_Unchecked(e, p, reply) ==
  LET counterpartySignature == reply.signature
      responderSignerAddress ==
        getSignerAddressFromPublicIdentifier(p.responderIdentifier)
      isChannelInitiator == multisigOwners[1] # responderSignerAddress
      e1 == [e EXCEPT !.theirSig = counterpartySignature]
      added == addSignatures(e.commitment,
                 IF isChannelInitiator THEN e.mySig ELSE counterpartySignature,
                 IF isChannelInitiator THEN counterpartySignature ELSE e.mySig)
      signed == IF added.ok THEN added.commitment ELSE e.commitment
  IN Yield([e1 EXCEPT !.commitment = signed, !.verified = FALSE],
           "persist",
           [op |-> "PERSIST_APP_INSTANCE", type |-> "CreateInstance",
            channel |-> e.after, appInstance |-> e.app,
            commitment |-> signed])

\* role 0 taking itself for channel owner 0 exactly when it is not
Initiating_Reply_SwappedOrder(e, p, reply) ==
  LET counterpartySignature == reply.signature
      responderSignerAddress ==
        getSignerAddressFromPublicIdentifier(p.responderIdentifier)
      isChannelInitiator == multisigOwners[1] = responderSignerAddress
      first == IF isChannelInitiator THEN e.mySig ELSE counterpartySignature
      second == IF isChannelInitiator THEN counterpartySignature ELSE e.mySig
      e1 == [e EXCEPT !.theirSig = counterpartySignature]
  IN IF ~assertIsValidSignature(responderSignerAddress, e.commitment.hash,
                                counterpartySignature)
     THEN Throw(e1, "InvalidCounterpartySignature")
     ELSE LET added == addSignatures(e.commitment, first, second)
              e2 == [e1 EXCEPT !.verified = TRUE,
                               !.sigArgs = <<first, second>>]
          IN IF ~added.ok
             THEN Throw(e2, "InvalidSignature")
             ELSE Yield([e2 EXCEPT !.commitment = added.commitment],
                        "persist",
                        [op |-> "PERSIST_APP_INSTANCE",
                         type |-> "CreateInstance",
                         channel |-> e.after, appInstance |-> e.app,
                         commitment |-> added.commitment])

\* role 0, resumed with the responder's reply, up to PERSIST_APP_INSTANCE
Initiating_Reply(e, p, reply) ==
  LET counterpartySignature == reply.signature
      responderSignerAddress ==
        getSignerAddressFromPublicIdentifier(p.responderIdentifier)
      isChannelInitiator == multisigOwners[1] # responderSignerAddress
      first == IF isChannelInitiator THEN e.mySig ELSE counterpartySignature
      second == IF isChannelInitiator THEN counterpartySignature ELSE e.mySig
      e1 == [e EXCEPT !.theirSig = counterpartySignature]
  IN IF ~assertIsValidSignature(responderSignerAddress, e.commitment.hash,
                                counterpartySignature)
     THEN Throw(e1, "InvalidCounterpartySignature")
     ELSE LET added == addSignatures(e.commitment, first, second)
              e2 == [e1 EXCEPT !.verified = TRUE,
                               !.sigArgs = <<first, second>>]
          IN IF ~added.ok
             THEN Throw(e2, "InvalidSignature")
             ELSE Yield([e2 EXCEPT !.commitment = added.commitment],
                        "persist",
                        [op |-> "PERSIST_APP_INSTANCE",
                         type |-> "CreateInstance",
                         channel |-> e.after, appInstance |-> e.app,
                         commitment |-> added.commitment])

\* role 1 asking for its signature without the check of the initiator's
Responding_Validated_Unchecked(e, p, error) ==
  IF Truthy(error)
  THEN Throw([e EXCEPT !.validation = error], error)
  ELSE LET freeBalanceUpdateData == getSetStateCommitment(e.after)
       IN Yield([e EXCEPT !.validation = error,
                          !.commitment = freeBalanceUpdateData],
                "sign",
                [op |-> "OP_SIGN", hash |-> freeBalanceUpdateData.hash])

\* role 1 building its commitment over the free balance it started from
Responding_Validated_HashesPre(e, p, error) ==
  IF Truthy(error)
  THEN Throw([e EXCEPT !.validation = error], error)
  ELSE LET protocolInitiatorAddr ==
             getSignerAddressFromPublicIdentifier(p.initiatorIdentifier)
           freeBalanceUpdateData == getSetStateCommitment(e.pre)
           e1 == [e EXCEPT !.validation = error,
                           !.commitment = freeBalanceUpdateData]
       IN IF ~assertIsValidSignature(protocolInitiatorAddr,
                                     freeBalanceUpdateData.hash, e.theirSig)
          THEN Throw(e1, "InvalidCounterpartySignature")
          ELSE Yield([e1 EXCEPT !.verified = TRUE],
                     "sign",
                     [op |-> "OP_SIGN", hash |-> freeBalanceUpdateData.hash])

\* role 1, resumed with the answer to OP_VALIDATE, up to the OP_SIGN request
Responding_Validated(e, p, error) ==
  IF Truthy(error)
  THEN Throw([e EXCEPT !.validation = error], error)
  ELSE LET protocolInitiatorAddr ==
             getSignerAddressFromPublicIdentifier(p.initiatorIdentifier)
           freeBalanceUpdateData == getSetStateCommitment(e.after)
           e1 == [e EXCEPT !.validation = error,
                           !.commitment = freeBalanceUpdateData]
       IN IF ~assertIsValidSignature(protocolInitiatorAddr,
                                     freeBalanceUpdateData.hash, e.theirSig)
          THEN Throw(e1, "InvalidCounterpartySignature")
          ELSE Yield([e1 EXCEPT !.verified = TRUE],
                     "sign",
                     [op |-> "OP_SIGN", hash |-> freeBalanceUpdateData.hash])

\* role 1 persisting the channel it started from
Responding_Signed_PersistsPre(e, p, mySignature) ==
  LET protocolInitiatorAddr ==
        getSignerAddressFromPublicIdentifier(p.initiatorIdentifier)
      isChannelInitiator == multisigOwners[1] # protocolInitiatorAddr
      first == IF isChannelInitiator THEN mySignature ELSE e.theirSig
      second == IF isChannelInitiator THEN e.theirSig ELSE mySignature
      e1 == [e EXCEPT !.mySig = mySignature, !.sigArgs = <<first, second>>]
      added == addSignatures(e.commitment, first, second)
  IN IF ~added.ok
     THEN Throw(e1, "InvalidSignature")
     ELSE Yield([e1 EXCEPT !.commitment = added.commitment],
                "persist",
                [op |-> "PERSIST_APP_INSTANCE", type |-> "CreateInstance",
                 channel |-> e.pre, appInstance |-> e.app,
                 commitment |-> added.commitment])

\* role 1 handing its reply to the transport before asking for the persist
Responding_Signed_SendsFirst(e, p, mySignature) ==
  LET protocolInitiatorAddr ==
        getSignerAddressFromPublicIdentifier(p.initiatorIdentifier)
      isChannelInitiator == multisigOwners[1] # protocolInitiatorAddr
      first == IF isChannelInitiator THEN mySignature ELSE e.theirSig
      second == IF isChannelInitiator THEN e.theirSig ELSE mySignature
      e1 == [e EXCEPT !.mySig = mySignature, !.sigArgs = <<first, second>>]
      added == addSignatures(e.commitment, first, second)
  IN IF ~added.ok
     THEN Throw(e1, "InvalidSignature")
     ELSE Yield(Yield([e1 EXCEPT !.commitment = added.commitment],
                      "send",
                      [op |-> "IO_SEND",
                       msg |-> [processID |-> 0, protocol |-> "install",
                                to |-> p.initiatorIdentifier,
                                signature |-> mySignature,
                                seq |-> UNASSIGNED_SEQ_NO]]),
                "persist",
                [op |-> "PERSIST_APP_INSTANCE", type |-> "CreateInstance",
                 channel |-> e.after, appInstance |-> e.app,
                 commitment |-> added.commitment])

\* role 1, resumed with its own signature, up to PERSIST_APP_INSTANCE
Responding_Signed(e, p, mySignature) ==
  LET protocolInitiatorAddr ==
        getSignerAddressFromPublicIdentifier(p.initiatorIdentifier)
      isChannelInitiator == multisigOwners[1] # protocolInitiatorAddr
      first == IF isChannelInitiator THEN mySignature ELSE e.theirSig
      second == IF isChannelInitiator THEN e.theirSig ELSE mySignature
      e1 == [e EXCEPT !.mySig = mySignature, !.sigArgs = <<first, second>>]
      added == addSignatures(e.commitment, first, second)
  IN IF ~added.ok
     THEN Throw(e1, "InvalidSignature")
     ELSE Yield([e1 EXCEPT !.commitment = added.commitment],
                "persist",
                [op |-> "PERSIST_APP_INSTANCE", type |-> "CreateInstance",
                 channel |-> e.after, appInstance |-> e.app,
                 commitment |-> added.commitment])

\* role 1 addressing its reply to itself
Responding_Persisted_ToResponder(e, p, processID) ==
  Yield(e, "send",
        [op |-> "IO_SEND",
         msg |-> [processID |-> processID, protocol |-> "install",
                  to |-> p.responderIdentifier,
                  signature |-> e.mySig, seq |-> UNASSIGNED_SEQ_NO]])

\* role 1, resumed after PERSIST_APP_INSTANCE, up to IO_SEND
Responding_Persisted(e, p, processID) ==
  Yield(e, "send",
        [op |-> "IO_SEND",
         msg |-> [processID |-> processID, protocol |-> "install",
                  to |-> p.initiatorIdentifier,
                  signature |-> e.mySig, seq |-> UNASSIGNED_SEQ_NO]])

LastRequest(e) == e.requests[Len(e.requests)]

-----------------------------------------------------------------------------
(* The exchange: the orchestrator, the host's answers, the transport *)

NoParams ==
  [initiatorIdentifier |-> "none", responderIdentifier |-> "none",
   multisigAddress |-> "none", proposal |-> NoApp, appIdentityHash |-> 0]

\* no client run under way
NoClient ==
  [pc |-> "idle", proposed |-> << >>, installed |-> << >>,
   hanging |-> << >>, apps |-> << >>, rejected |-> {}, uninstalled |-> {},
   before |-> [proposed |-> << >>, installed |-> << >>], error |-> ""]

NoTransition == [pre |-> NoChannel, proposal |-> NoApp, applied |-> FALSE,
                 ok |-> FALSE, err |-> "", post |-> NoChannel]

Init ==
  /\ store = [o \in Owners |-> InitialChannel]
  /\ ini = IdleEngine
  /\ rsp = IdleEngine
  /\ params = NoParams
  /\ toResp = << >>
  /\ toInit = << >>
  /\ runs = 0
  /\ tr = NoTransition
  /\ client = NoClient

\* the orchestrator starts role 0 for a proposal handed down by the upper
\* layer; messages of earlier processIDs are not dispatched to the new run
StartInitiating(me, h, present) ==
  /\ Quiet(ini) /\ Quiet(rsp)
  /\ runs < MaxRuns
  /\ LET p == [initiatorIdentifier |-> IdentifierOf(me),
               responderIdentifier |-> IdentifierOf(Other(me)),
               multisigAddress |-> InitialChannel.multisigAddress,
               proposal |-> Catalog[h], appIdentityHash |-> h]
     IN /\ params' = p
        /\ ini' = RunToValidate("initiator", me,
                                IF present THEN store[me] ELSE NoChannel,
                                p, NoSig)
  /\ rsp' = IdleEngine
  /\ toResp' = << >>
  /\ toInit' = << >>
  /\ runs' = runs + 1
  /\ UNCHANGED <<store, tr, client>>

ValidateInitiating(error) ==
  /\ ini.pc = "validate"
  /\ ini' = Initiating_Validated(ini, error)
  /\ UNCHANGED <<store, rsp, params, toResp, toInit, runs, tr, client>>

\* the host signs with the party's key and, resumed, the engine hands the
\* message to the transport
SignInitiating ==
  /\ ini.pc = "sign"
  /\ ini' = Initiating_Signed(ini, params, runs,
                              Sign(ini.me, LastRequest(ini).hash))
  /\ toResp' = Append(toResp, LastRequest(ini').msg)
  /\ UNCHANGED <<store, rsp, params, toInit, runs, tr, client>>

\* the message reaches the counterparty, whose orchestrator starts role 1
StartResponding(present) ==
  /\ rsp.pc = "idle"
  /\ toResp # << >>
  /\ LET m == Head(toResp)
         me == getSignerAddressFromPublicIdentifier(m.to)
     IN rsp' = RunToValidate("responder", me,
                             IF present THEN store[me] ELSE NoChannel,
                             m.params, m.signature)
  /\ toResp' = Tail(toResp)
  /\ UNCHANGED <<store, ini, params, toInit, runs, tr, client>>

ValidateResponding(error) ==
  /\ rsp.pc = "validate"
  /\ rsp' = Responding_Validated(rsp, params, error)
  /\ UNCHANGED <<store, ini, params, toResp, toInit, runs, tr, client>>

SignResponding ==
  /\ rsp.pc = "sign"
  /\ rsp' = Responding_Signed(rsp, params,
                              Sign(rsp.me, LastRequest(rsp).hash))
  /\ UNCHANGED <<store, ini, params, toResp, toInit, runs, tr, client>>

\* the host answers PERSIST_APP_INSTANCE: the store holds the channel of the
\* request, or the write failed and the engine errors
PersistResponding(ok) ==
  /\ rsp.pc = "persist"
  /\ IF ok
     THEN /\ store' = [store EXCEPT ![rsp.me] = LastRequest(rsp).channel]
          /\ rsp' = Responding_Persisted(rsp, params, runs)
          /\ toInit' = Append(toInit, LastRequest(rsp').msg)
     ELSE /\ rsp' = Throw(rsp, "PersistenceFailed")
          /\ UNCHANGED <<store, toInit>>
  /\ UNCHANGED <<ini, params, toResp, runs, tr, client>>

SentResponding ==
  /\ rsp.pc = "send"
  /\ rsp' = [rsp EXCEPT !.pc = "done"]
  /\ UNCHANGED <<store, ini, params, toResp, toInit, runs, tr, client>>

\* the engine run again on every delivery of a reply, waiting or not
ReplyInitiating_OnEveryDelivery ==
  /\ ini.pc \in {"wait", "persist", "done"}
  /\ toInit # << >>
  /\ ini' = Initiating_Reply(ini, params, Head(toInit))
  /\ toInit' = Tail(toInit)
  /\ UNCHANGED <<store, rsp, params, toResp, runs, tr, client>>

ReplyInitiating ==
  /\ ini.pc = "wait"
  /\ toInit # << >>
  /\ ini' = Initiating_Reply(ini, params, Head(toInit))
  /\ toInit' = Tail(toInit)
  /\ UNCHANGED <<store, rsp, params, toResp, runs, tr, client>>

PersistInitiating(ok) ==
  /\ ini.pc = "persist"
  /\ IF ok
     THEN /\ store' = [store EXCEPT ![ini.me] = LastRequest(ini).channel]
          /\ ini' = [ini EXCEPT !.pc = "done"]
     ELSE /\ ini' = Throw(ini, "PersistenceFailed")
          /\ UNCHANGED store
  /\ UNCHANGED <<rsp, params, toResp, toInit, runs, tr, client>>

\* the host's wall-clock timeout on IO_SEND_AND_WAIT
Timeout ==
  /\ ini.pc = "wait"
  /\ ini' = Throw(ini, "ProtocolTimeout")
  /\ UNCHANGED <<store, rsp, params, toResp, toInit, runs, tr, client>>

\* a dishonest counterparty: the signature of a message in flight is any
\* owner's, over the hash it carried or over another one
ForgedSignatures(sig) ==
  {Sign(s, h) : s \in Owners, h \in {sig.hash, OtherHash(sig.hash)}} \ {sig}

ForgeToResponder(sig) ==
  /\ toResp # << >>
  /\ sig \in ForgedSignatures(Head(toResp).signature)
  /\ Head(toResp).signature = ini.mySig
  /\ toResp' = <<[Head(toResp) EXCEPT !.signature = sig]>> \o Tail(toResp)
  /\ UNCHANGED <<store, ini, rsp, params, toInit, runs, tr, client>>

ForgeToInitiator(sig) ==
  /\ toInit # << >>
  /\ sig \in ForgedSignatures(Head(toInit).signature)
  /\ Head(toInit).signature = rsp.mySig
  /\ toInit' = <<[Head(toInit) EXCEPT !.signature = sig]>> \o Tail(toInit)
  /\ UNCHANGED <<store, ini, rsp, params, toResp, runs, tr, client>>

Next ==
  \/ \E me \in Owners, h \in AppIds, present \in BOOLEAN :
       StartInitiating(me, h, present)
  \/ \E error \in ValidateResponses : ValidateInitiating(error)
  \/ SignInitiating
  \/ \E present \in BOOLEAN : StartResponding(present)
  \/ \E error \in ValidateResponses : ValidateResponding(error)
  \/ SignResponding
  \/ \E ok \in BOOLEAN : PersistResponding(ok)
  \/ SentResponding
  \/ ReplyInitiating
  \/ \E ok \in BOOLEAN : PersistInitiating(ok)
  \/ Timeout
  \/ \E s \in Owners, other \in BOOLEAN :
       ForgeToResponder(Sign(s, IF other
                                THEN OtherHash(Head(toResp).signature.hash)
                                ELSE Head(toResp).signature.hash))
  \/ \E s \in Owners, other \in BOOLEAN :
       ForgeToInitiator(Sign(s, IF other
                                THEN OtherHash(Head(toInit).signature.hash)
                                ELSE Head(toInit).signature.hash))

Spec == Init /\ [][Next]_vars

-----------------------------------------------------------------------------
(* The exchange with a host that cancels suspended engines *)

\* the host drops a suspended initiator before its persist has completed;
\* at IO_SEND_AND_WAIT the cancellation is Timeout
CancelInitiating ==
  /\ ini.pc \in {"validate", "sign", "persist"}
  /\ ini' = Throw(ini, "Cancelled")
  /\ UNCHANGED <<store, rsp, params, toResp, toInit, runs, tr, client>>

\* the host drops a suspended responder before its persist has completed
CancelResponding ==
  /\ rsp.pc \in {"validate", "sign", "persist"}
  /\ rsp' = Throw(rsp, "Cancelled")
  /\ UNCHANGED <<store, ini, params, toResp, toInit, runs, tr, client>>

NextCancel ==
  \/ Next
  \/ CancelInitiating
  \/ CancelResponding

SpecCancel == Init /\ [][NextCancel]_vars

-----------------------------------------------------------------------------

(* The exchange on a channel whose proposals arrive one by one *)

\* monotonicNumProposedApps: every proposal made so far is either still
\* proposed or installed
numProposedApps(channel) ==
  Cardinality(DOMAIN channel.proposedAppInstances
                \cup DOMAIN channel.appInstances)

\* the propose protocol's transition: the proposal, whose identityHash comes
\* from the channel's next sequence number, joins proposedAppInstances
addProposal(channel, proposal) ==
  [channel EXCEPT !.proposedAppInstances =
                    Put(@, proposal.identityHash, proposal)]

InitPropose ==
  /\ store = [o \in Owners |->
                [InitialChannel EXCEPT !.proposedAppInstances = EmptyObj]]
  /\ ini = IdleEngine
  /\ rsp = IdleEngine
  /\ params = NoParams
  /\ toResp = << >>
  /\ toInit = << >>
  /\ runs = 0
  /\ tr = NoTransition
  /\ client = NoClient

\* a propose run completes on both sides while no install run is under way
Propose ==
  /\ Quiet(ini) /\ Quiet(rsp)
  /\ LET h == numProposedApps(store[multisigOwners[1]]) + 1
     IN /\ h \in AppIds
        /\ h <= MaxProposals
        /\ store' = [o \in Owners |-> addProposal(store[o], Catalog[h])]
  /\ UNCHANGED <<ini, rsp, params, toResp, toInit, runs, tr, client>>

NextPropose ==
  \/ Next
  \/ Propose

SpecPropose == InitPropose /\ [][NextPropose]_vars

-----------------------------------------------------------------------------

(* The exchange over a transport that duplicates the responder's reply *)

\* the transport delivers the reply at the head once more, in order
DuplicateReply ==
  /\ toInit # << >>
  /\ Len(toInit) < MaxCopies
  /\ toInit' = <<Head(toInit)>> \o toInit
  /\ UNCHANGED <<store, ini, rsp, params, toResp, runs, tr, client>>

\* a reply delivered while no generator is suspended in IO_SEND_AND_WAIT
\* resumes nothing: the generator was resumed once and does not wait again
DeliverUnawaited ==
  /\ toInit # << >>
  /\ ini.pc # "wait"
  /\ toInit' = Tail(toInit)
  /\ UNCHANGED <<store, ini, rsp, params, toResp, runs, tr, client>>

NextDuplicate ==
  \/ Next
  \/ DuplicateReply
  \/ DeliverUnawaited

SpecDuplicate == Init /\ [][NextDuplicate]_vars

-----------------------------------------------------------------------------

(* The exchange with a responder that may crash once its persist is done *)

\* the host has written the channel of the PERSIST_APP_INSTANCE request and
\* the process dies before the generator is resumed: no IO_SEND is yielded
CrashResponding ==
  /\ rsp.pc = "persist"
  /\ store' = [store EXCEPT ![rsp.me] = LastRequest(rsp).channel]
  /\ rsp' = Throw(rsp, "Crashed")
  /\ UNCHANGED <<ini, params, toResp, toInit, runs, tr, client>>

\* back on line, the responder is handed the initiator's message again; the
\* only code that yields the reply is role 1 run from its stored channel
ReconnectResponding ==
  /\ rsp.error = "Crashed"
  /\ rsp' = RunToValidate("responder", rsp.me, store[rsp.me], params,
                          rsp.theirSig)
  /\ UNCHANGED <<store, ini, params, toResp, toInit, runs, tr, client>>

NextCrash ==
  \/ Next
  \/ CrashResponding
  \/ ReconnectResponding

\* the steps of a run under way: the host's answers, the deliveries, the
\* timeout of the wait and the reconnect; starting a new install is the upper
\* layer's choice
ContinueRun ==
  \/ \E error \in ValidateResponses : ValidateInitiating(error)
  \/ SignInitiating
  \/ \E present \in BOOLEAN : StartResponding(present)
  \/ \E error \in ValidateResponses : ValidateResponding(error)
  \/ SignResponding
  \/ \E ok \in BOOLEAN : PersistResponding(ok)
  \/ CrashResponding
  \/ SentResponding
  \/ ReplyInitiating
  \/ \E ok \in BOOLEAN : PersistInitiating(ok)
  \/ Timeout
  \/ ReconnectResponding

\* the host resumes every suspended generator and the transport delivers
\* every message: no step of a run that can be taken is put off for ever
SpecCrash == Init /\ [][NextCrash]_vars /\ WF_vars(ContinueRun)

-----------------------------------------------------------------------------

(* ConnextClient.cleanupRegistryApps: the client tidying its channel on     *)
(* connect, every await a step                                              *)

appRegistry ==
  {[name |-> "SimpleTwoPartySwapApp", appDefinitionAddress |-> "0xSwap"],
   [name |-> "SimpleLinkedTransferApp", appDefinitionAddress |-> "0xLinked"],
   [name |-> "CoinBalanceRefundApp", appDefinitionAddress |-> "0xRefund"]}

AppDefinitions == {app.appDefinitionAddress : app \in appRegistry}

swapAppRegistryInfo ==
  CHOOSE app \in appRegistry : app.name = "SimpleTwoPartySwapApp"

linkedRegistryInfo ==
  CHOOSE app \in appRegistry : app.name = "SimpleLinkedTransferApp"

\* the definitions handed to removeHangingProposalsByDefinition
HangingDefinitions_SwapOnly == {swapAppRegistryInfo.appDefinitionAddress}

HangingDefinitions ==
  {swapAppRegistryInfo.appDefinitionAddress,
   linkedRegistryInfo.appDefinitionAddress}

\* the definitions handed to uninstallAllAppsByDefintion
UninstallDefinitions_WithLinked ==
  {swapAppRegistryInfo.appDefinitionAddress,
   linkedRegistryInfo.appDefinitionAddress}

UninstallDefinitions == {swapAppRegistryInfo.appDefinitionAddress}

ClientApps == 1..MaxApps

RECURSIVE Ascending(_)
Ascending(S) ==
  IF S = {}
  THEN << >>
  ELSE LET m == CHOOSE x \in S : \A y \in S : x <= y
       IN <<m>> \o Ascending(S \ {m})

Without(obj, k) == [x \in (DOMAIN obj) \ {k} |-> obj[x]]

\* every mix of proposed and installed apps of the registry's definitions
ChannelMixes ==
  {[proposed |-> [h \in {x \in ClientApps : a[x] = "proposed"} |-> d[h]],
    installed |-> [h \in {x \in ClientApps : a[x] = "installed"} |-> d[h]]] :
     a \in [ClientApps -> {"absent", "proposed", "installed"}],
     d \in [ClientApps -> AppDefinitions]}

InitCleanup ==
  /\ store = [o \in Owners |-> InitialChannel]
  /\ ini = IdleEngine
  /\ rsp = IdleEngine
  /\ params = NoParams
  /\ toResp = << >>
  /\ toInit = << >>
  /\ runs = 0
  /\ tr = NoTransition
  /\ \E mix \in ChannelMixes :
       client = [NoClient EXCEPT !.pc = "start",
                                 !.proposed = mix.proposed,
                                 !.installed = mix.installed,
                                 !.before = mix]

\* removeHangingProposalsByDefinition: the proposals read and filtered
GetProposedAppInstances ==
  /\ client.pc = "start"
  /\ client' =
       [client EXCEPT
          !.pc = "reject",
          !.hanging = Ascending({h \in DOMAIN client.proposed :
                                   client.proposed[h] \in HangingDefinitions})]
  /\ UNCHANGED <<store, ini, rsp, params, toResp, toInit, runs, tr>>

\* one turn of the loop over hangingProposals; a failed send throws
RejectInstallApp(ok) ==
  /\ client.pc = "reject"
  /\ client.hanging # << >>
  /\ LET h == Head(client.hanging)
     IN client' =
          IF ok
          THEN [client EXCEPT !.proposed = Without(@, h),
                              !.rejected = @ \cup {h},
                              !.hanging = Tail(@)]
          ELSE [client EXCEPT !.pc = "error", !.error = "chan_rejectInstall"]
  /\ UNCHANGED <<store, ini, rsp, params, toResp, toInit, runs, tr>>

\* uninstallAllAppsByDefintion: the installed apps read and filtered
GetAppInstances ==
  /\ client.pc = "reject"
  /\ client.hanging = << >>
  /\ client' =
       [client EXCEPT
          !.pc = "uninstall",
          !.apps = Ascending({h \in DOMAIN client.installed :
                                client.installed[h] \in UninstallDefinitions})]
  /\ UNCHANGED <<store, ini, rsp, params, toResp, toInit, runs, tr>>

\* one turn of the loop over apps: uninstallApp with its appNotInstalled test
UninstallApp(ok) ==
  /\ client.pc = "uninstall"
  /\ client.apps # << >>
  /\ LET h == Head(client.apps)
     IN client' =
          IF h \notin DOMAIN client.installed
          THEN [client EXCEPT !.pc = "error",
                              !.error = "Could not find installed app"]
          ELSE IF ok
          THEN [client EXCEPT !.installed = Without(@, h),
                              !.uninstalled = @ \cup {h},
                              !.apps = Tail(@)]
          ELSE [client EXCEPT !.pc = "error", !.error = "chan_uninstall"]
  /\ UNCHANGED <<store, ini, rsp, params, toResp, toInit, runs, tr>>

CleanupReturns ==
  /\ client.pc = "uninstall"
  /\ client.apps = << >>
  /\ client' = [client EXCEPT !.pc = "done"]
  /\ UNCHANGED <<store, ini, rsp, params, toResp, toInit, runs, tr>>

NextCleanup ==
  \/ GetProposedAppInstances
  \/ \E ok \in BOOLEAN : RejectInstallApp(ok)
  \/ GetAppInstances
  \/ \E ok \in BOOLEAN : UninstallApp(ok)
  \/ CleanupReturns

SpecCleanup == InitCleanup /\ [][NextCleanup]_vars

-----------------------------------------------------------------------------

(* The exchange on a channel whose proposals have a deposit of zero, on one *)
(* side or on both                                                         *)

ZeroDepositProposals ==
  {h \in AppIds : Catalog[h].initiatorDeposit = 0
                    \/ Catalog[h].responderDeposit = 0}

InitZeroDeposits ==
  /\ store = [o \in Owners |->
                [InitialChannel EXCEPT
                   !.proposedAppInstances =
                     [h \in ZeroDepositProposals |-> Catalog[h]]]]
  /\ ini = IdleEngine
  /\ rsp = IdleEngine
  /\ params = NoParams
  /\ toResp = << >>
  /\ toInit = << >>
  /\ runs = 0
  /\ tr = NoTransition
  /\ client = NoClient

SpecZeroDeposits == InitZeroDeposits /\ [][Next]_vars

-----------------------------------------------------------------------------
(* The exchange with an outsider that writes to the initiator's channel *)

\* the signatures an outsider can put in a reply: one under its own key over
\* the hash the initiator waits for, and the initiator's own, which it has
\* read on the wire
InjectedSignatures ==
  {Sign("0xE", ini.commitment.hash), ini.mySig}

\* a reply that the responder has not sent reaches the waiting initiator
InjectReply(sig) ==
  /\ ini.pc = "wait"
  /\ toInit = << >>
  /\ sig \in InjectedSignatures
  /\ toInit' = <<[processID |-> runs, protocol |-> "install",
                  to |-> params.initiatorIdentifier,
                  signature |-> sig, seq |-> UNASSIGNED_SEQ_NO]>>
  /\ UNCHANGED <<store, ini, rsp, params, toResp, runs, tr, client>>

NextInject ==
  \/ Next
  \/ \E sig \in InjectedSignatures : InjectReply(sig)

SpecInject == Init /\ [][NextInject]_vars

-----------------------------------------------------------------------------
(* ConnextClient.verifyAppSequenceNumber *)

NO_INSTALLED_APPS ==
  "There are no installed AppInstances in this StateChannel"

\* error messages as lists of fragments; the read of the most recent app
\* fails with the text alone, with the text inside a longer message, with a
\* text that only starts alike, or because the channel is undefined
ReadFailures ==
  {<<NO_INSTALLED_APPS>>,
   <<"StateChannel 0xM: ", NO_INSTALLED_APPS, ".">>,
   <<"There are no installed AppInstances">>,
   <<"Cannot read property 'mostRecentlyInstalledAppInstance' of undefined">>}

\* String.prototype.includes on messages
Includes(message, text) == \E i \in DOMAIN message : message[i] = text

\* the channels chan_getStateChannel may return: any set of installed apps,
\* each with its own appSeqNo
SequencedChannels ==
  {sc \in UNION {[S -> ClientApps] : S \in SUBSET ClientApps} :
     \A g, h \in DOMAIN sc : g # h => sc[g] # sc[h]}

\* StateChannel.mostRecentlyInstalledAppInstance: the installed app with the
\* highest appSeqNo; throws when no app is installed
mostRecentlyInstalledAppInstance(sc) ==
  IF DOMAIN sc = {}
  THEN [thrown |-> <<NO_INSTALLED_APPS>>, appSeqNo |-> -1]
  ELSE LET h == CHOOSE x \in DOMAIN sc : \A y \in DOMAIN sc : sc[y] <= sc[x]
       IN [thrown |-> << >>, appSeqNo |-> sc[h]]

\* the try block swallowing every failure of the read
appSequenceNumber_SwallowsAll(read) ==
  IF read.thrown = << >>
  THEN [thrown |-> << >>, value |-> read.appSeqNo]
  ELSE [thrown |-> << >>, value |-> 0]

\* the try block around the read: the value of appSequenceNumber, or the
\* error thrown again
appSequenceNumber(read) ==
  IF read.thrown = << >>
  THEN [thrown |-> << >>, value |-> read.appSeqNo]
  ELSE IF Includes(read.thrown, NO_INSTALLED_APPS)
  THEN [thrown |-> << >>, value |-> 0]
  ELSE [thrown |-> read.thrown, value |-> -1]

InitSequence ==
  /\ store = [o \in Owners |-> InitialChannel]
  /\ ini = IdleEngine
  /\ rsp = IdleEngine
  /\ params = NoParams
  /\ toResp = << >>
  /\ toInit = << >>
  /\ runs = 0
  /\ tr = NoTransition
  /\ \E sc \in SequencedChannels :
       client = [pc |-> "start", sc |-> sc,
                 read |-> [thrown |-> << >>, appSeqNo |-> -1],
                 verified |-> << >>, error |-> << >>]

\* the channel is asked of the channel provider; a failed send throws
GetStateChannel(ok) ==
  /\ client.pc = "start"
  /\ client' = IF ok
               THEN [client EXCEPT !.pc = "read"]
               ELSE [client EXCEPT !.pc = "error",
                                   !.error = <<"chan_getStateChannel">>]
  /\ UNCHANGED <<store, ini, rsp, params, toResp, toInit, runs, tr>>

\* the read of the most recent app returns, or fails as the channel object
\* does or with one of the other failures, and the try block settles
\* appSequenceNumber
ReadMostRecentApp(read) ==
  /\ client.pc = "read"
  /\ LET n == appSequenceNumber(read)
     IN client' = IF n.thrown = << >>
                  THEN [client EXCEPT !.pc = "verify", !.read = read]
                  ELSE [client EXCEPT !.pc = "error", !.read = read,
                                      !.error = n.thrown]
  /\ UNCHANGED <<store, ini, rsp, params, toResp, toInit, runs, tr>>

\* node.verifyAppSequenceNumber(appSequenceNumber)
NodeVerifyAppSequenceNumber(ok) ==
  /\ client.pc = "verify"
  /\ client' =
       [client EXCEPT
          !.verified = Append(@, appSequenceNumber(client.read).value),
          !.pc = IF ok THEN "done" ELSE "error",
          !.error = IF ok THEN @ ELSE <<"verifyAppSequenceNumber">>]
  /\ UNCHANGED <<store, ini, rsp, params, toResp, toInit, runs, tr>>

\* what the read may do on the channel: what the channel object does, or a
\* failure; only a channel without apps fails for want of apps
ReadOutcomes(sc) ==
  {mostRecentlyInstalledAppInstance(sc)}
    \cup {[thrown |-> m, appSeqNo |-> -1] :
            m \in {f \in ReadFailures :
                     Includes(f, NO_INSTALLED_APPS) => DOMAIN sc = {}}}

NextSequence ==
  \/ \E ok \in BOOLEAN : GetStateChannel(ok)
  \/ \E read \in ReadOutcomes(client.sc) : ReadMostRecentApp(read)
  \/ \E ok \in BOOLEAN : NodeVerifyAppSequenceNumber(ok)

SpecSequence == InitSequence /\ [][NextSequence]_vars

-----------------------------------------------------------------------------
(* ConnextClient: the withdrawal the node has been asked to submit *)

MAX_WITHDRAWAL_RETRIES == 3

maxBlocks == 15

MaxPending == 2

\* a transaction value in the encoding it was given in, and as the number
\* bigNumberify reads from it
TxValues ==
  {[text |-> "0x01", n |-> 1], [text |-> "1", n |-> 1],
   [text |-> "0x02", n |-> 2]}

bigNumberify(value) == value.n

NoTx == [to |-> "undefined", value |-> [text |-> "undefined", n |-> 0],
         data |-> "undefined"]

\* the transaction of the stored withdrawal
StoredTx == [to |-> "0xM", value |-> [text |-> "0x01", n |-> 1],
             data |-> "0xd1"]

\* what node.getLatestWithdrawal may return
LatestTxs ==
  {NoTx} \cup [to : {"0xM", "0xm"}, value : TxValues, data : {"0xd1", "0xd2"}]

\* matchTx comparing everything but the data
matchTx_IgnoresData(givenTransaction, expected) ==
  /\ givenTransaction # NoTx
  /\ givenTransaction.to = expected.to
  /\ bigNumberify(givenTransaction.value) = bigNumberify(expected.value)

matchTx(givenTransaction, expected) ==
  /\ givenTransaction # NoTx
  /\ givenTransaction.to = expected.to
  /\ bigNumberify(givenTransaction.value) = bigNumberify(expected.value)
  /\ givenTransaction.data = expected.data

\* chan_getUserWithdrawal when nothing is stored
NoWithdrawal == [retry |-> -1, tx |-> NoTx]

Withdrawal(retry) == [retry |-> retry, tx |-> StoredTx]

\* the client on connect, whatever an earlier session left in the store, or
\* after the node has been asked to submit a new withdrawal
InitWithdrawal ==
  /\ store = [o \in Owners |-> InitialChannel]
  /\ ini = IdleEngine
  /\ rsp = IdleEngine
  /\ params = NoParams
  /\ toResp = << >>
  /\ toInit = << >>
  /\ runs = 0
  /\ tr = NoTransition
  /\ \E entry \in {"resubmit", "watch"} :
       \E stored \in {NoWithdrawal}
                       \cup {Withdrawal(r) : r \in 0..MAX_WITHDRAWAL_RETRIES} :
         /\ entry = "watch" => stored = Withdrawal(0)
         /\ client = [pc |-> entry, stored |-> stored,
                      withdrawal |-> NoWithdrawal, val |-> NoWithdrawal,
                      latest |-> NoTx,
                      listener |-> 0, watches |-> 0, block |-> 0,
                      handlers |-> {}, withdrawn |-> 0, error |-> ""]

Unchanged == UNCHANGED <<store, ini, rsp, params, toResp, toInit, runs, tr>>

\* resubmitActiveWithdrawal up to the request to the node
ResubmitRead ==
  /\ client.pc = "resubmit"
  /\ LET withdrawal == client.stored
     IN client' =
          IF withdrawal = NoWithdrawal
          THEN [client EXCEPT !.pc = "done"]
          ELSE IF withdrawal.retry >= MAX_WITHDRAWAL_RETRIES
          THEN [client EXCEPT !.pc = "error", !.withdrawal = withdrawal,
                              !.error = "Cannot connect client"]
          ELSE [client EXCEPT !.pc = "resubmit_latest",
                              !.withdrawal = withdrawal]
  /\ Unchanged

\* resumed with the node's latest withdrawal
ResubmitLatest(tx) ==
  /\ client.pc = "resubmit_latest"
  /\ client' =
       IF matchTx(tx, client.withdrawal.tx)
       THEN [client EXCEPT !.pc = "resubmit_clear", !.latest = tx]
       ELSE [client EXCEPT !.pc = "retry", !.latest = tx]
  /\ Unchanged

\* chan_setUserWithdrawal with nothing, and the return
ResubmitClear ==
  /\ client.pc = "resubmit_clear"
  /\ client' = [client EXCEPT !.pc = "done", !.stored = NoWithdrawal]
  /\ Unchanged

\* retryNodeSubmittedWithdrawal resumed with the stored withdrawal
RetryRead ==
  /\ client.pc = "retry"
  /\ LET val == client.stored
     IN client' =
          IF val = NoWithdrawal
          THEN [client EXCEPT !.pc = "done", !.val = val]
          ELSE [client EXCEPT !.pc = "retry_store", !.val = val]
  /\ Unchanged

\* the incremented count is stored; then the test of the count
RetryStore ==
  /\ client.pc = "retry_store"
  /\ LET retry == client.val.retry + 1
         tx == client.val.tx
     IN client' =
          IF retry >= MAX_WITHDRAWAL_RETRIES
          THEN [client EXCEPT !.pc = "error",
                              !.stored = [retry |-> retry, tx |-> tx],
                              !.error = "Tried to have node submit withdrawal"]
          ELSE [client EXCEPT !.pc = "retry_withdraw",
                              !.stored = [retry |-> retry, tx |-> tx]]
  /\ Unchanged

\* node.withdraw(tx) answered
NodeWithdraw(ok) ==
  /\ client.pc = "retry_withdraw"
  /\ client' =
       IF ok
       THEN [client EXCEPT !.pc = "watch", !.withdrawn = @ + 1]
       ELSE [client EXCEPT !.pc = "error", !.withdrawn = @ + 1,
                           !.error = "node.withdraw"]
  /\ Unchanged

\* watchForUserWithdrawal: the starting block is read and the listener set
WatchStart ==
  /\ client.pc = "watch"
  /\ client' = [client EXCEPT !.pc = "watching",
                              !.watches = @ + 1, !.listener = client.watches + 1,
                              !.block = 0]
  /\ Unchanged

\* a block is mined and the listener is called with its number
NewBlock ==
  /\ client.listener # 0
  /\ Cardinality(client.handlers) < MaxPending
  /\ client' =
       [client EXCEPT
          !.block = @ + 1,
          !.handlers = @ \cup {[watch |-> client.listener,
                                passed |-> client.block + 1,
                                pos |-> "check"]}]
  /\ Unchanged

\* what the end of a call of the listener does: past maxBlocks the listeners
\* are removed and the promise of the call's own watch is rejected, which
\* makes that watch retry when it is still waiting
ListenerEnds(c, h) ==
  IF h.passed >= maxBlocks
  THEN [c EXCEPT !.listener = 0,
                 !.pc = IF c.pc = "watching" /\ h.watch = c.watches
                        THEN "retry" ELSE @,
                 !.handlers = @ \ {h}]
  ELSE [c EXCEPT !.handlers = @ \ {h}]

\* checkForUserWithdrawal answered: the block holds the stored transaction
\* or not; nothing is found when nothing is stored
ListenerChecked(h, found) ==
  /\ h \in client.handlers
  /\ h.pos = "check"
  /\ found => client.stored # NoWithdrawal
  /\ client' =
       IF found
       THEN [client EXCEPT !.handlers = (@ \ {h}) \cup {[h EXCEPT !.pos = "clear"]}]
       ELSE ListenerEnds(client, h)
  /\ Unchanged

\* chan_setUserWithdrawal with nothing answered: the listeners are removed
\* and the promise of the call's own watch is resolved
ListenerCleared(h) ==
  /\ h \in client.handlers
  /\ h.pos = "clear"
  /\ LET resolved ==
           [client EXCEPT
              !.stored = NoWithdrawal,
              !.listener = 0,
              !.pc = IF client.pc = "watching" /\ h.watch = client.watches
                     THEN "done" ELSE @]
     IN client' = ListenerEnds(resolved, h)
  /\ Unchanged

NextWithdrawal ==
  \/ ResubmitRead
  \/ \E tx \in LatestTxs : ResubmitLatest(tx)
  \/ ResubmitClear
  \/ RetryRead
  \/ RetryStore
  \/ \E ok \in BOOLEAN : NodeWithdraw(ok)
  \/ WatchStart
  \/ NewBlock
  \/ \E h \in client.handlers : \E found \in BOOLEAN : ListenerChecked(h, found)
  \/ \E h \in client.handlers : ListenerCleared(h)

\* the client on connect, with whatever an earlier session left in the store
InitResubmit ==
  /\ InitWithdrawal
  /\ client.pc = "resubmit"

\* resubmitActiveWithdrawal and the retry it starts, up to the wait for
\* blocks
NextResubmit ==
  \/ ResubmitRead
  \/ \E tx \in LatestTxs : ResubmitLatest(tx)
  \/ ResubmitClear
  \/ RetryRead
  \/ RetryStore
  \/ \E ok \in BOOLEAN : NodeWithdraw(ok)
  \/ WatchStart

SpecResubmit == InitResubmit /\ [][NextResubmit]_vars

\* every request is answered and blocks keep being mined
SpecWithdrawal ==
  InitWithdrawal /\ [][NextWithdrawal]_vars /\ WF_vars(NextWithdrawal)

-----------------------------------------------------------------------------
(* ConnextClient: the operations on an app, guarded by the installed apps *)

ClientOperations ==
  {"installApp", "uninstallApp", "takeAction", "updateState",
   "getAppState", "getAppInstanceDetails"}

\* the request each operation sends once its guard has passed
OperationRequest ==
  [installApp |-> "chan_install", uninstallApp |-> "chan_uninstall",
   takeAction |-> "chan_takeAction", updateState |-> "chan_updateState",
   getAppState |-> "chan_getState",
   getAppInstanceDetails |-> "chan_getAppInstance"]

\* appNotInstalled finding every app installed
appNotInstalled_Never(apps, appInstanceId) == "undefined"

\* the error message, or undefined when exactly one app has the id
appNotInstalled(apps, appInstanceId) ==
  LET app == {a \in apps : a = appInstanceId}
  IN IF Cardinality(app) = 0
     THEN "Could not find installed app"
     ELSE IF Cardinality(app) > 1
     THEN "CRITICAL ERROR: found multiple apps with the same id"
     ELSE "undefined"

\* the error message, or undefined when no app has the id
appInstalled(apps, appInstanceId) ==
  LET app == {a \in apps : a = appInstanceId}
  IN IF Cardinality(app) > 0
     THEN "App is already installed"
     ELSE "undefined"

\* an operation has been called on some app id, in a channel with any set of
\* installed apps, some of them with a finalized state; its first request,
\* the read of the installed apps, is on its way
InitGuards ==
  /\ store = [o \in Owners |-> InitialChannel]
  /\ ini = IdleEngine
  /\ rsp = IdleEngine
  /\ params = NoParams
  /\ toResp = << >>
  /\ toInit = << >>
  /\ runs = 0
  /\ tr = NoTransition
  /\ \E op \in ClientOperations, id \in ClientApps,
        installed \in SUBSET ClientApps :
       \E finalized \in SUBSET installed :
         client = [pc |-> "check", op |-> op, appInstanceId |-> id,
                   installed |-> installed, finalized |-> finalized,
                   sent |-> <<"chan_getAppInstances">>,
                   result |-> "pending", error |-> ""]

Send(c, pc, method) == [c EXCEPT !.pc = pc, !.sent = Append(@, method)]

Fail(c, message) == [c EXCEPT !.pc = "error", !.error = message]

\* getAppInstances answered inside the guard of the operation: the operation
\* throws, returns undefined, or goes on to its next request
GuardAnswered(ok) ==
  /\ client.pc = "check"
  /\ LET apps == client.installed
         id == client.appInstanceId
         op == client.op
         err == IF op = "installApp"
                THEN appInstalled(apps, id)
                ELSE appNotInstalled(apps, id)
     IN client' =
          IF ~ok
          THEN Fail(client, "chan_getAppInstances")
          ELSE IF Truthy(err)
          THEN IF op \in {"getAppState", "getAppInstanceDetails"}
               THEN [client EXCEPT !.pc = "done", !.result = "undefined"]
               ELSE Fail(client, err)
          ELSE IF op \in {"takeAction", "updateState"}
          THEN Send(client, "state_check", "chan_getAppInstances")
          ELSE Send(client, "operation", OperationRequest[op])
  /\ Unchanged

\* takeAction and updateState: getAppInstances answered inside getAppState
StateGuardAnswered(ok) ==
  /\ client.pc = "state_check"
  /\ LET err == appNotInstalled(client.installed, client.appInstanceId)
     IN client' =
          IF ~ok
          THEN Fail(client, "chan_getAppInstances")
          ELSE IF Truthy(err)
          THEN Fail(client, "TypeError")
          ELSE Send(client, "state", "chan_getState")
  /\ Unchanged

\* takeAction and updateState: the state is read and tested for finalized
StateAnswered(ok) ==
  /\ client.pc = "state"
  /\ client' =
       IF ~ok
       THEN Fail(client, "chan_getState")
       ELSE IF client.appInstanceId \in client.finalized
       THEN Fail(client,
                 "Cannot take action on an app with a finalized state.")
       ELSE Send(client, "operation", OperationRequest[client.op])
  /\ Unchanged

\* the request of the operation is answered
OperationAnswered(ok) ==
  /\ client.pc = "operation"
  /\ client' =
       IF ok
       THEN [client EXCEPT !.pc = "done", !.result = "value"]
       ELSE Fail(client, OperationRequest[client.op])
  /\ Unchanged

NextGuards ==
  \/ \E ok \in BOOLEAN : GuardAnswered(ok)
  \/ \E ok \in BOOLEAN : StateGuardAnswered(ok)
  \/ \E ok \in BOOLEAN : StateAnswered(ok)
  \/ \E ok \in BOOLEAN : OperationAnswered(ok)

SpecGuards == InitGuards /\ [][NextGuards]_vars

-----------------------------------------------------------------------------

(* computeInstallStateChannelTransition on its own: every pre channel and   *)
(* proposal within the bounds, applied once                                 *)

BalanceStates == [Tokens -> [Owners -> 0..MaxAmount]]

ProposalSpace ==
  {Proposal(1, i, a, x, b, y) :
     i \in Owners, a \in 0..MaxAmount, b \in 0..MaxAmount,
     x \in AssetIds, y \in AssetIds}

InitTransition ==
  /\ store = [o \in Owners |-> InitialChannel]
  /\ ini = IdleEngine
  /\ rsp = IdleEngine
  /\ params = NoParams
  /\ toResp = << >>
  /\ toInit = << >>
  /\ runs = 0
  /\ client = NoClient
  /\ \E bal \in BalanceStates, pr \in ProposalSpace, isProposed \in BOOLEAN :
       tr = [NoTransition EXCEPT
               !.pre = [InitialChannel EXCEPT
                          !.freeBalance.state = bal,
                          !.proposedAppInstances =
                            IF isProposed
                            THEN Put(EmptyObj, pr.identityHash, pr)
                            ELSE EmptyObj],
               !.proposal = pr]

\* the sufficiency checks and the speculative transition of either role
ApplyTransition ==
  /\ ~tr.applied
  /\ LET pre == tr.pre
         proposal == tr.proposal
         t == computeInstallStateChannelTransition(pre, proposal)
     IN tr' =
          IF ~assertSufficientFundsWithinFreeBalance(
                pre, proposal.initiatorIdentifier,
                getAddressFromAssetId(proposal.initiatorDepositAssetId),
                proposal.initiatorDeposit)
             \/ ~assertSufficientFundsWithinFreeBalance(
                   pre, proposal.responderIdentifier,
                   getAddressFromAssetId(proposal.responderDepositAssetId),
                   proposal.responderDeposit)
          THEN [tr EXCEPT !.applied = TRUE, !.err = "InsufficientFunds"]
          ELSE [tr EXCEPT !.applied = TRUE, !.ok = t.ok, !.err = t.err,
                          !.post = t.channel]
  /\ UNCHANGED <<store, ini, rsp, params, toResp, toInit, runs, client>>

SpecTransition == InitTransition /\ [][ApplyTransition]_vars

-----------------------------------------------------------------------------
(* Properties *)

Engines == <<ini, rsp>>

PersistRequest(e) ==
  CHOOSE r \in {e.requests[i] : i \in DOMAIN e.requests} :
    r.op = "PERSIST_APP_INSTANCE"

InitiatorSigner == getSignerAddressFromPublicIdentifier(params.initiatorIdentifier)

ResponderSigner == getSignerAddressFromPublicIdentifier(params.responderIdentifier)

SendOps == {"IO_SEND", "IO_SEND_AND_WAIT"}

\* C1: the responder requests its signature only once the initiator's
\* signature from the message has verified against the responder's own
\* commitment hash with the signer derived from initiatorIdentifier; a run
\* whose check fails ends in error with no OP_SIGN, PERSIST_APP_INSTANCE or
\* IO_SEND request.
C1_ResponderVerifiesBeforeSigning ==
  LET valid == recoverAddress(hashToSign(rsp.after), rsp.theirSig)
                 = InitiatorSigner
  IN /\ Emitted(rsp, "OP_SIGN") => rsp.verified /\ valid
     /\ (rsp.pc \notin {"idle", "validate"} /\ ~valid) =>
          /\ rsp.pc = "error"
          /\ ~Emitted(rsp, "OP_SIGN")
          /\ ~Emitted(rsp, "PERSIST_APP_INSTANCE")
          /\ ~Emitted(rsp, "IO_SEND")

C1_Witness ==
  /\ rsp.error = "InvalidCounterpartySignature"
  /\ Ops(rsp) = <<"OP_VALIDATE">>
  /\ rsp.theirSig.signer = InitiatorSigner

\* C2: the initiator requests PERSIST_APP_INSTANCE only once the signature of
\* the reply has verified against its commitment hash with the signer derived
\* from responderIdentifier; when the reply's signature does not verify the
\* run fails with no PERSIST_APP_INSTANCE request and the initiator's stored
\* channel is the pre-protocol channel.
C2_InitiatorVerifiesBeforePersisting ==
  LET valid == recoverAddress(hashToSign(ini.after), ini.theirSig)
                 = ResponderSigner
  IN /\ Emitted(ini, "PERSIST_APP_INSTANCE") => ini.verified /\ valid
     /\ (ini.theirSig # NoSig /\ ~valid) =>
          /\ ini.pc = "error"
          /\ ini.error = "InvalidCounterpartySignature"
          /\ ~Emitted(ini, "PERSIST_APP_INSTANCE")
          /\ store[ini.me] = ini.pre

C2_Witness ==
  /\ ini.error = "InvalidCounterpartySignature"
  /\ ini.theirSig.signer = ResponderSigner
  /\ ini.theirSig.hash # hashToSign(ini.after)
  /\ Ops(ini) = <<"OP_VALIDATE", "OP_SIGN", "IO_SEND_AND_WAIT">>

\* C3 as stated: in either role no persist, sign or send request is emitted
\* before the counterparty's signature has been validated.
C3_NothingBeforeVerification ==
  \A k \in DOMAIN Engines :
    (\E i \in DOMAIN Engines[k].requests :
       Engines[k].requests[i].op
         \in {"PERSIST_APP_INSTANCE", "OP_SIGN"} \cup SendOps)
      => Engines[k].verified

\* C3 amended: in either role PERSIST_APP_INSTANCE is emitted only after the
\* counterparty's signature has been validated, and the responder emits
\* neither OP_SIGN nor IO_SEND before that; the initiator has emitted OP_SIGN
\* and IO_SEND_AND_WAIT by the time it validates the reply.
C3_PersistAfterVerification ==
  /\ \A k \in DOMAIN Engines :
       Emitted(Engines[k], "PERSIST_APP_INSTANCE") => Engines[k].verified
  /\ (Emitted(rsp, "OP_SIGN") \/ Emitted(rsp, "IO_SEND")) => rsp.verified
  /\ ini.verified =>
       /\ Emitted(ini, "OP_SIGN") /\ Emitted(ini, "IO_SEND_AND_WAIT")
       /\ ini.theirSig = Sign(ResponderSigner, ini.commitment.hash)

C3_Witness ==
  /\ ini.verified /\ Emitted(ini, "PERSIST_APP_INSTANCE")
  /\ rsp.verified /\ Emitted(rsp, "IO_SEND")

\* C4 as stated: a run of either role that ends in error before its
\* PERSIST_APP_INSTANCE request has emitted no PERSIST request and no
\* message carrying a signature.
C4_NoSignatureSentOnError ==
  \A k \in DOMAIN Engines :
    (Engines[k].pc = "error" /\ Engines[k].error # "PersistenceFailed") =>
      /\ ~Emitted(Engines[k], "PERSIST_APP_INSTANCE")
      /\ \A i \in DOMAIN Engines[k].requests :
           Engines[k].requests[i].op \notin SendOps

\* C4 amended: a run of either role that ends in error before its
\* PERSIST_APP_INSTANCE request has emitted no PERSIST and no IO_SEND
\* request; a responder run has sent no message at all; an initiator run has
\* sent its IO_SEND_AND_WAIT message, carrying its own signature, exactly
\* when it failed on the reply (invalid signature) or on the wait (timeout).
C4_NoPersistNoReplyOnError ==
  /\ \A k \in DOMAIN Engines :
       (Engines[k].pc = "error" /\ Engines[k].error # "PersistenceFailed") =>
         /\ ~Emitted(Engines[k], "PERSIST_APP_INSTANCE")
         /\ ~Emitted(Engines[k], "IO_SEND")
  /\ (rsp.pc = "error" /\ rsp.error # "PersistenceFailed") =>
       ~Emitted(rsp, "IO_SEND_AND_WAIT")
  /\ (ini.pc = "error" /\ ini.error # "PersistenceFailed") =>
       (Emitted(ini, "IO_SEND_AND_WAIT")
          <=> ini.error \in {"InvalidCounterpartySignature",
                             "ProtocolTimeout"})

C4_Witness ==
  /\ ini.pc = "error" /\ ini.error = "InvalidCounterpartySignature"
  /\ LastRequest(ini).op = "IO_SEND_AND_WAIT"
  /\ LastRequest(ini).msg.signature = Sign(ini.me, hashToSign(ini.after))

\* C5: the commitment of every PERSIST_APP_INSTANCE request holds, at
\* position i, a signature over the commitment hash that recovers to
\* multisigOwners[i], whichever owner is the protocol initiator; the role
\* already passes the two signatures to addSignatures in that order.
C5_SignaturesInOwnerOrder ==
  \A k \in DOMAIN Engines :
    Emitted(Engines[k], "PERSIST_APP_INSTANCE") =>
      LET c == PersistRequest(Engines[k]).commitment
      IN /\ c.hash = hashToSign(Engines[k].after)
         /\ \A i \in {1, 2} :
              recoverAddress(c.hash, c.signatures[i]) = multisigOwners[i]
         /\ c.signatures = Engines[k].sigArgs

C5_Witness ==
  /\ ini.pc = "done" /\ rsp.pc = "done"
  /\ ini.me = multisigOwners[2]
  /\ PersistRequest(ini).commitment.signatures = <<ini.theirSig, ini.mySig>>
  /\ PersistRequest(rsp).commitment.signatures = <<rsp.mySig, rsp.theirSig>>

\* C6: every PERSIST_APP_INSTANCE request carries a channel whose free
\* balance version is the pre-protocol version plus 1, and a party's stored
\* version is the initial version plus the number of installs it persisted.
C6_VersionIncrementsByOne ==
  /\ \A k \in DOMAIN Engines :
       Emitted(Engines[k], "PERSIST_APP_INSTANCE") =>
         PersistRequest(Engines[k]).channel.freeBalance.latestVersionNumber
           = Engines[k].pre.freeBalance.latestVersionNumber + 1
  /\ \A o \in Owners :
       store[o].freeBalance.latestVersionNumber
         = InitialChannel.freeBalance.latestVersionNumber
             + Cardinality(DOMAIN store[o].appInstances)

C6_Witness ==
  \A o \in Owners :
    /\ Cardinality(DOMAIN store[o].appInstances) = 2
    /\ store[o].freeBalance.latestVersionNumber
         = InitialChannel.freeBalance.latestVersionNumber + 2

TotalOf(channel, token) ==
  getBalance(channel, token, multisigOwners[1])
    + getBalance(channel, token, multisigOwners[2])

DepositsIn(proposal, token) ==
  (IF getAddressFromAssetId(proposal.initiatorDepositAssetId) = token
   THEN proposal.initiatorDeposit ELSE 0)
  + (IF getAddressFromAssetId(proposal.responderDepositAssetId) = token
     THEN proposal.responderDeposit ELSE 0)

\* C7: whenever the transition succeeds, for every asset the owners' total in
\* the pre free balance equals their total in the post free balance plus the
\* deposits the proposal makes in that asset.
C7_TotalPreserved ==
  (tr.applied /\ tr.ok) =>
    \A t \in Tokens :
      TotalOf(tr.pre, t) = TotalOf(tr.post, t) + DepositsIn(tr.proposal, t)

C7_Witness ==
  /\ tr.applied /\ tr.ok
  /\ tr.proposal.initiatorDepositAssetId = tr.proposal.responderDepositAssetId
  /\ tr.proposal.initiatorDeposit = 2 /\ tr.proposal.responderDeposit = 1
  /\ tr.proposal.initiatorIdentifier = IdentifierOf(multisigOwners[2])

\* C8: once both roles of an exchange have finished, each party's stored
\* channel has the proposal's identityHash in appInstances and not in
\* proposedAppInstances, and the app instance it gets back for that hash has
\* the proposed parameters.
C8_InstalledOnBothSides ==
  (ini.pc = "done" /\ rsp.pc = "done") =>
    \A o \in Owners :
      LET h == params.proposal.identityHash
      IN /\ h \in DOMAIN store[o].appInstances
         /\ h \notin DOMAIN store[o].proposedAppInstances
         /\ getAppInstance(store[o], h) = Catalog[h]

C8_Witness ==
  /\ ini.pc = "done" /\ rsp.pc = "done"
  /\ params.proposal.identityHash = 2
  /\ \A o \in Owners : getAppInstance(store[o], 2).responderDeposit = 2

SecondAttempt(e) ==
  /\ e.pc # "idle"
  /\ params.proposal.identityHash \in DOMAIN e.pre.appInstances

CoversBothDeposits(channel, proposal) ==
  /\ getBalance(channel,
                getAddressFromAssetId(proposal.initiatorDepositAssetId),
                getSignerAddressFromPublicIdentifier(proposal.initiatorIdentifier))
       >= proposal.initiatorDeposit
  /\ getBalance(channel,
                getAddressFromAssetId(proposal.responderDepositAssetId),
                getSignerAddressFromPublicIdentifier(proposal.responderIdentifier))
       >= proposal.responderDeposit

\* C9 as stated: an install of a proposal that the pre-protocol channel
\* already holds installed fails with AppNotProposed before any request.
C9_SecondAttemptNotProposed ==
  \A k \in DOMAIN Engines :
    SecondAttempt(Engines[k]) =>
      /\ Engines[k].pc = "error"
      /\ Engines[k].error = "AppNotProposed"
      /\ Engines[k].requests = << >>

\* C9 amended: an install of a proposal that the pre-protocol channel already
\* holds installed fails before any request is emitted and leaves the stored
\* channel (one installed app, one debit) as it was: with AppNotProposed when
\* the remaining free balance covers both deposits, with InsufficientFunds
\* from the sufficiency checks, which run first, when it does not.
C9_SecondAttemptFails ==
  \A k \in DOMAIN Engines :
    SecondAttempt(Engines[k]) =>
      /\ Engines[k].pc = "error"
      /\ Engines[k].requests = << >>
      /\ store[Engines[k].me] = Engines[k].pre
      /\ Engines[k].error =
           IF CoversBothDeposits(Engines[k].pre, params.proposal)
           THEN "AppNotProposed"
           ELSE "InsufficientFunds"

C9_Witness ==
  /\ SecondAttempt(ini)
  /\ ini.error = "InsufficientFunds"
  /\ store[ini.me].freeBalance.latestVersionNumber
       = InitialChannel.freeBalance.latestVersionNumber + 1

C11_InsufficientFundsBeforeAnyRequest ==
  \A k \in DOMAIN Engines :
    (/\ Engines[k].pc # "idle"
     /\ Engines[k].pre # NoChannel
     /\ ~CoversBothDeposits(Engines[k].pre, params.proposal)) =>
      /\ Engines[k].pc = "error"
      /\ Engines[k].error = "InsufficientFunds"
      /\ Engines[k].requests = << >>

C11_Witness ==
  /\ ini.error = "InsufficientFunds"
  /\ ini.requests = << >>
  /\ params.proposal.identityHash \in DOMAIN ini.pre.proposedAppInstances
  /\ getBalance(ini.pre,
                getAddressFromAssetId(params.proposal.initiatorDepositAssetId),
                InitiatorSigner) < params.proposal.initiatorDeposit

\* C12: whenever both roles have computed their free-balance commitment from
\* the same pre-protocol channel and the same params, the hash computed by
\* the initiator equals the hash computed by the responder; the hashes the
\* two roles asked their hosts to sign, and the hashes of the commitments
\* they persisted when both runs succeed, are that same hash.
C12_SameHashOnBothSides ==
  /\ (/\ ini.commitment # NoCommitment
      /\ rsp.commitment # NoCommitment
      /\ ini.pre = rsp.pre) =>
       /\ ini.commitment.hash = rsp.commitment.hash
       /\ ini.requests[2].hash = rsp.commitment.hash
       /\ Emitted(rsp, "OP_SIGN") =>
            rsp.requests[2].hash = ini.commitment.hash
  /\ (ini.pc = "done" /\ rsp.pc = "done") =>
       /\ PersistRequest(ini).commitment.hash
            = PersistRequest(rsp).commitment.hash
       /\ PersistRequest(ini).commitment.hash = ini.requests[2].hash

C12_Witness ==
  /\ ini.pc = "done" /\ rsp.pc = "done"
  /\ ini.pre = rsp.pre
  /\ ini.commitment.hash = rsp.commitment.hash
  /\ ini.commitment.hash # NoHash
  /\ ini.commitment.hash = hashToSign(store[ini.me])

FullySigned(commitment) ==
  /\ commitment.signatures[1] # NoSig
  /\ commitment.signatures[2] # NoSig
  /\ \A i \in 1..2 :
       recoverAddress(commitment.hash, commitment.signatures[i])
         = multisigOwners[i]

\* what a PERSIST_APP_INSTANCE request of a successful run carries: the
\* channel after the install, the app now installed in it, and the
\* commitment over its free balance with both owners' signatures
CarriesInstall(e, r) ==
  LET h == params.proposal.identityHash
  IN /\ r.op = "PERSIST_APP_INSTANCE"
     /\ r.channel = computeInstallStateChannelTransition(
                      e.pre, params.proposal).channel
     /\ h \in DOMAIN r.channel.appInstances
     /\ r.appInstance = r.channel.appInstances[h]
     /\ r.commitment.hash = hashToSign(r.channel)
     /\ FullySigned(r.commitment)

\* C13 as stated: a successful run of either role has PERSIST_APP_INSTANCE,
\* carrying the updated channel, the new app instance and the fully signed
\* commitment, as its final request.
C13_PersistIsFinalRequest ==
  \A k \in DOMAIN Engines :
    Engines[k].pc = "done" =>
      CarriesInstall(Engines[k], LastRequest(Engines[k]))

\* C13 amended: a successful run of the initiator has PERSIST_APP_INSTANCE,
\* carrying the updated channel, the new app instance and the fully signed
\* commitment, as its final request; a successful run of the responder has
\* that request as its last but one and the IO_SEND of its reply as its
\* final request.
C13_PersistFinalButForReply ==
  /\ ini.pc = "done" => CarriesInstall(ini, LastRequest(ini))
  /\ rsp.pc = "done" =>
       /\ Len(rsp.requests) >= 2
       /\ CarriesInstall(rsp, rsp.requests[Len(rsp.requests) - 1])
       /\ LastRequest(rsp).op = "IO_SEND"

C13_Witness ==
  /\ ini.pc = "done" /\ rsp.pc = "done"
  /\ LastRequest(ini).op = "PERSIST_APP_INSTANCE"
  /\ LastRequest(rsp).op = "IO_SEND"
  /\ FullySigned(PersistRequest(rsp).commitment)

InitiatorOps ==
  <<"OP_VALIDATE", "OP_SIGN", "IO_SEND_AND_WAIT", "PERSIST_APP_INSTANCE">>

ResponderOps ==
  <<"OP_VALIDATE", "OP_SIGN", "PERSIST_APP_INSTANCE", "IO_SEND">>

IsPrefix(s, t) ==
  /\ Len(s) <= Len(t)
  /\ \A i \in DOMAIN s : s[i] = t[i]

C16_ReplyOnlyAfterPersist ==
  /\ Emitted(rsp, "IO_SEND") =>
       /\ Ops(rsp) = ResponderOps
       /\ store[rsp.me] = PersistRequest(rsp).channel
       /\ LastRequest(rsp).msg.signature = rsp.mySig
       /\ rsp.mySig.signer = rsp.me
  /\ rsp.error = "PersistenceFailed" =>
       /\ ~Emitted(rsp, "IO_SEND")
       /\ toInit = << >>
       /\ store[rsp.me] = rsp.pre

C16_Witness ==
  /\ rsp.error = "PersistenceFailed"
  /\ Ops(rsp) = <<"OP_VALIDATE", "OP_SIGN", "PERSIST_APP_INSTANCE">>
  /\ store[rsp.me] = rsp.pre
  /\ store[rsp.me] # PersistRequest(rsp).channel
  /\ ini.pc = "wait"

\* C17: once the initiator's persist has failed, the responder having
\* persisted, the initiator's stored channel is the pre-install channel and a
\* retry of the full protocol with the same proposal goes through on both
\* sides: started from the channels the two stores now hold, each role gets
\* past its local checks to OP_VALIDATE, and a responder run of such a retry
\* does not end in AppNotProposed or InsufficientFunds.
C17_RetryCompletesOnBothSides ==
  LET h == params.proposal.identityHash
  IN /\ (/\ ini.error = "PersistenceFailed"
         /\ h \in DOMAIN store[ResponderSigner].appInstances) =>
          /\ store[ini.me] = ini.pre
          /\ RunToValidate("initiator", ini.me, store[ini.me],
                           params, NoSig).pc = "validate"
          /\ RunToValidate("responder", ResponderSigner,
                           store[ResponderSigner], params, NoSig).pc
               = "validate"
     /\ (/\ rsp.pc # "idle"
         /\ rsp.pre # NoChannel
         /\ h \in DOMAIN ini.pre.proposedAppInstances
         /\ h \in DOMAIN rsp.pre.appInstances) =>
          rsp.error \notin {"AppNotProposed", "InsufficientFunds"}

Cancellations == {"Cancelled", "ProtocolTimeout"}

\* C18 as stated: an engine cancelled by the host at a suspension point
\* before its persist completes, the initiator timed out in IO_SEND_AND_WAIT
\* included, has left its store as it was and has sent nothing.
C18_CancelLeavesNoEffect ==
  \A k \in DOMAIN Engines :
    Engines[k].error \in Cancellations =>
      /\ store[Engines[k].me] = Engines[k].pre
      /\ \A op \in SendOps : ~Emitted(Engines[k], op)

\* C18 amended: an engine cancelled by the host at a suspension point before
\* its persist completes has left its own store as it was. A cancelled
\* responder has sent nothing, and so has an initiator cancelled at
\* OP_VALIDATE or OP_SIGN, whose counterparty has not been started. An
\* initiator cancelled in IO_SEND_AND_WAIT (ProtocolTimeout) or at
\* PERSIST_APP_INSTANCE has already sent the message that carries its
\* signature.
C18_CancelLeavesStoreOnly ==
  /\ \A k \in DOMAIN Engines :
       Engines[k].error \in Cancellations =>
         store[Engines[k].me] = Engines[k].pre
  /\ rsp.error \in Cancellations =>
       /\ \A op \in SendOps : ~Emitted(rsp, op)
       /\ toInit = << >>
  /\ (ini.error \in Cancellations /\ Len(ini.requests) <= 2) =>
       /\ \A op \in SendOps : ~Emitted(ini, op)
       /\ toResp = << >>
       /\ rsp.pc = "idle"
  /\ (ini.error \in Cancellations /\ Len(ini.requests) > 2) =>
       /\ ini.requests[3].op = "IO_SEND_AND_WAIT"
       /\ ini.requests[3].msg.signature = ini.mySig
       /\ ini.error = "ProtocolTimeout" <=> Len(ini.requests) = 3

C18_Witness ==
  /\ ini.error = "ProtocolTimeout"
  /\ Emitted(ini, "IO_SEND_AND_WAIT")
  /\ store[ini.me] = ini.pre
  /\ rsp.error = "Cancelled"
  /\ LastRequest(rsp).op = "PERSIST_APP_INSTANCE"
  /\ store[rsp.me] = rsp.pre

RemoteErrors == {"InvalidCounterpartySignature", "ProtocolTimeout"}

\* C19: a run of either role that ends with a remote-attributable error (the
\* counterparty's signature does not verify, or the host times out the wait)
\* has asked for no persist, and the party's stored channel equals the
\* pre-protocol channel: free balance, version number, appInstances and
\* proposedAppInstances are unchanged.
C19_RemoteErrorsLeaveChannel ==
  \A k \in DOMAIN Engines :
    Engines[k].error \in RemoteErrors =>
      LET e == Engines[k]
          now == store[e.me]
      IN /\ ~Emitted(e, "PERSIST_APP_INSTANCE")
         /\ now.freeBalance.state = e.pre.freeBalance.state
         /\ now.freeBalance.latestVersionNumber
              = e.pre.freeBalance.latestVersionNumber
         /\ now.appInstances = e.pre.appInstances
         /\ now.proposedAppInstances = e.pre.proposedAppInstances
         /\ now = e.pre

C19_Witness ==
  /\ rsp.error = "InvalidCounterpartySignature"
  /\ store[rsp.me] = rsp.pre
  /\ ini.error = "ProtocolTimeout"
  /\ store[ini.me] = ini.pre
  /\ params.proposal.identityHash \in DOMAIN store[ini.me].proposedAppInstances

Disjoint(channel) ==
  DOMAIN channel.appInstances \cap DOMAIN channel.proposedAppInstances = {}

\* C20: across any sequence of propose and install transitions, in every
\* channel a store holds, every channel an engine started from or computed,
\* and every channel handed to PERSIST_APP_INSTANCE, no identityHash is in
\* both appInstances and proposedAppInstances.
C20_InstalledAndProposedDisjoint ==
  /\ \A o \in Owners : Disjoint(store[o])
  /\ \A k \in DOMAIN Engines :
       /\ Disjoint(Engines[k].pre)
       /\ Disjoint(Engines[k].after)
       /\ \A i \in DOMAIN Engines[k].requests :
            Engines[k].requests[i].op = "PERSIST_APP_INSTANCE" =>
              Disjoint(Engines[k].requests[i].channel)

C20_Witness ==
  /\ \A o \in Owners :
       /\ DOMAIN store[o].appInstances = {1}
       /\ DOMAIN store[o].proposedAppInstances = {2, 3}
  /\ ini.pc = "done" /\ rsp.pc = "done"

PersistCount(e) ==
  Cardinality({i \in DOMAIN e.requests :
                 e.requests[i].op = "PERSIST_APP_INSTANCE"})

\* C21: over a transport that delivers the responder's reply twice, in
\* order, the initiator run consumes the first delivery only: it emits at
\* most one PERSIST_APP_INSTANCE, its requests stay within the initiator's
\* order, and a delivery within the run that comes once the reply has been
\* verified changes neither the engine nor either store.
C21_DuplicateReplyHasNoEffect ==
  /\ [](PersistCount(ini) <= 1 /\ IsPrefix(Ops(ini), InitiatorOps))
  /\ [][(/\ ini.verified
         /\ toInit # << >>
         /\ toInit' = Tail(toInit)
         /\ runs' = runs) =>
          (ini' = ini /\ store' = store)]_vars

C21_Witness ==
  /\ ini.pc = "done"
  /\ ini.verified
  /\ PersistCount(ini) = 1
  /\ toInit # << >>
  /\ Head(toInit).signature = ini.theirSig
  /\ store[ini.me] = PersistRequest(ini).channel

\* C22: when a responder has completed its persist and crashed before its
\* IO_SEND, its reply is eventually emitted again and the initiator of that
\* install eventually holds the app installed in its own store, as the
\* responder does.
C22_CrashedResponderRecovers ==
  \A h \in AppIds :
    (rsp.error = "Crashed" /\ params.appIdentityHash = h)
      ~> (/\ \A o \in Owners : h \in DOMAIN store[o].appInstances
          /\ Emitted(rsp, "IO_SEND"))

\* C23: a run of either role whose preProtocolStateChannel is absent ends in
\* the error "No state channel found for install" having emitted no request:
\* no OP_VALIDATE, no OP_SIGN, no send and no persist.
C23_NoChannelFailsBeforeAnyRequest ==
  \A k \in DOMAIN Engines :
    (Engines[k].pc # "idle" /\ Engines[k].pre = NoChannel) =>
      /\ Engines[k].pc = "error"
      /\ Engines[k].error = "No state channel found for install"
      /\ Engines[k].requests = << >>

C23_Witness ==
  /\ rsp.pc = "error"
  /\ rsp.pre = NoChannel
  /\ rsp.error = "No state channel found for install"
  /\ rsp.requests = << >>
  /\ ini.pc = "wait"

Opcodes ==
  {"OP_VALIDATE", "OP_SIGN", "IO_SEND", "IO_SEND_AND_WAIT",
   "PERSIST_APP_INSTANCE"}

\* the host's answers an engine has been resumed with so far: the answer to
\* OP_VALIDATE, its own signature, and for the initiator the reply; the
\* answer to the responder's persist is the store holding the channel
Answered(e, isInitiator) ==
  (IF e.validation # "pending" THEN 1 ELSE 0)
  + (IF e.mySig # NoSig THEN 1 ELSE 0)
  + (IF isInitiator
     THEN (IF e.theirSig # NoSig THEN 1 ELSE 0)
     ELSE (IF Emitted(e, "PERSIST_APP_INSTANCE")
              /\ store[e.me] = PersistRequest(e).channel
              /\ e.pc # "persist"
           THEN 1 ELSE 0))

\* C24: within one run every request of an engine is one of OP_VALIDATE,
\* OP_SIGN, IO_SEND, IO_SEND_AND_WAIT, PERSIST_APP_INSTANCE; the requests
\* follow the program order of the role; a step of the run adds at most one
\* request; and the engine has emitted request k+1 only once the host has
\* answered request k, so at most one request is unanswered.
C24_OneRequestAtATime ==
  /\ [](/\ \A k \in DOMAIN Engines :
             \A i \in DOMAIN Engines[k].requests :
               Engines[k].requests[i].op \in Opcodes
        /\ IsPrefix(Ops(ini), InitiatorOps)
        /\ IsPrefix(Ops(rsp), ResponderOps)
        /\ Len(ini.requests) <= Answered(ini, TRUE) + 1
        /\ Len(rsp.requests) <= Answered(rsp, FALSE) + 1)
  /\ [][runs' = runs =>
          /\ Len(ini'.requests) <= Len(ini.requests) + 1
          /\ Len(rsp'.requests) <= Len(rsp.requests) + 1
          /\ IsPrefix(ini.requests, ini'.requests)
          /\ IsPrefix(rsp.requests, rsp'.requests)]_vars

C24_Witness ==
  /\ ini.pc = "done" /\ rsp.pc = "done"
  /\ Len(ini.requests) = 4 /\ Answered(ini, TRUE) = 3
  /\ Len(rsp.requests) = 4 /\ Answered(rsp, FALSE) = 3

SwapDefinition == swapAppRegistryInfo.appDefinitionAddress

LinkedDefinition == linkedRegistryInfo.appDefinitionAddress

\* C25: a run of cleanupRegistryApps that returns, on any mix of proposed and
\* installed apps, has rejected every proposed app of the swap or of the
\* linked-transfer definition and uninstalled every installed swap app; at
\* every point of the run the installed linked-transfer apps and the apps of
\* other definitions are installed or proposed as they were, and nothing has
\* been added.
C25_CleanupRegistryApps ==
  LET was == client.before
  IN /\ client.pc = "done" =>
          /\ \A h \in DOMAIN was.proposed :
               was.proposed[h] \in {SwapDefinition, LinkedDefinition} =>
                 /\ h \notin DOMAIN client.proposed
                 /\ h \in client.rejected
          /\ \A h \in DOMAIN was.installed :
               was.installed[h] = SwapDefinition =>
                 /\ h \notin DOMAIN client.installed
                 /\ h \in client.uninstalled
     /\ \A h \in DOMAIN was.proposed :
          was.proposed[h] \notin {SwapDefinition, LinkedDefinition} =>
            /\ h \in DOMAIN client.proposed
            /\ client.proposed[h] = was.proposed[h]
            /\ h \notin client.rejected
     /\ \A h \in DOMAIN was.installed :
          was.installed[h] # SwapDefinition =>
            /\ h \in DOMAIN client.installed
            /\ client.installed[h] = was.installed[h]
            /\ h \notin client.uninstalled
     /\ DOMAIN client.proposed \subseteq DOMAIN was.proposed
     /\ DOMAIN client.installed \subseteq DOMAIN was.installed

C25_Witness ==
  /\ client.pc = "done"
  /\ \E h \in client.rejected : client.before.proposed[h] = LinkedDefinition
  /\ \E h \in client.uninstalled : client.before.installed[h] = SwapDefinition
  /\ \E h \in DOMAIN client.installed :
       client.installed[h] = LinkedDefinition

AppInitiatorFb(proposal) ==
  getSignerAddressFromPublicIdentifier(proposal.initiatorIdentifier)

AppResponderFb(proposal) ==
  getSignerAddressFromPublicIdentifier(proposal.responderIdentifier)

InitiatorToken(proposal) ==
  getAddressFromAssetId(proposal.initiatorDepositAssetId)

ResponderToken(proposal) ==
  getAddressFromAssetId(proposal.responderDepositAssetId)

\* C26: when both deposits are in the same asset the decrement is a single
\* entry for that asset that lists both channel owners: owner 0 is debited
\* initiatorDeposit and owner 1 responderDeposit when the app initiator's
\* signer is multisigOwners[0], the other way round otherwise; where the
\* transition succeeds each party's balance in that asset has gone down by
\* exactly its own deposit.
C26_SameAssetDecrement ==
  LET p == tr.proposal
      token == InitiatorToken(p)
      dec == computeDecrement(tr.pre, p)
  IN (tr.applied /\ token = ResponderToken(p)) =>
       /\ DOMAIN dec = {token}
       /\ DOMAIN dec[token] = {multisigOwners[1], multisigOwners[2]}
       /\ IF AppInitiatorFb(p) = multisigOwners[1]
          THEN /\ dec[token][multisigOwners[1]] = p.initiatorDeposit
               /\ dec[token][multisigOwners[2]] = p.responderDeposit
          ELSE /\ dec[token][multisigOwners[1]] = p.responderDeposit
               /\ dec[token][multisigOwners[2]] = p.initiatorDeposit
       /\ tr.ok =>
            /\ getBalance(tr.post, token, AppInitiatorFb(p))
                 = getBalance(tr.pre, token, AppInitiatorFb(p))
                     - p.initiatorDeposit
            /\ getBalance(tr.post, token, AppResponderFb(p))
                 = getBalance(tr.pre, token, AppResponderFb(p))
                     - p.responderDeposit

C26_Witness ==
  /\ tr.applied /\ tr.ok
  /\ InitiatorToken(tr.proposal) = ResponderToken(tr.proposal)
  /\ AppInitiatorFb(tr.proposal) = multisigOwners[2]
  /\ tr.proposal.initiatorDeposit = 1 /\ tr.proposal.responderDeposit = 2
  /\ getBalance(tr.post, InitiatorToken(tr.proposal), multisigOwners[2])
       = getBalance(tr.pre, InitiatorToken(tr.proposal), multisigOwners[2]) - 1

\* the proposal with the app roles and the deposits exchanged
SwappedRoles(p) ==
  [p EXCEPT !.initiatorIdentifier = p.responderIdentifier,
            !.responderIdentifier = p.initiatorIdentifier,
            !.initiatorDeposit = p.responderDeposit,
            !.responderDeposit = p.initiatorDeposit,
            !.initiatorDepositAssetId = p.responderDepositAssetId,
            !.responderDepositAssetId = p.initiatorDepositAssetId]

\* C27: for deposits in the same asset, the install of the proposal and the
\* install of the proposal with the app roles exchanged together with the
\* deposits, from the same pre channel, have the same decrement and succeed
\* or fail alike, and where they succeed they give the same post free
\* balance.
C27_RoleSwapSameFreeBalance ==
  LET p == tr.proposal
      q == SwappedRoles(p)
      t == computeInstallStateChannelTransition(tr.pre, q)
  IN (tr.applied /\ InitiatorToken(p) = ResponderToken(p)) =>
       /\ computeDecrement(tr.pre, q) = computeDecrement(tr.pre, p)
       /\ CoversBothDeposits(tr.pre, q) = CoversBothDeposits(tr.pre, p)
       /\ tr.ok =>
            /\ t.ok
            /\ t.channel.freeBalance = tr.post.freeBalance

C27_Witness ==
  /\ tr.applied /\ tr.ok
  /\ InitiatorToken(tr.proposal) = ResponderToken(tr.proposal)
  /\ tr.proposal.initiatorDeposit = 2 /\ tr.proposal.responderDeposit = 1
  /\ AppInitiatorFb(tr.proposal) = multisigOwners[1]
  /\ AppInitiatorFb(SwappedRoles(tr.proposal)) = multisigOwners[2]
  /\ tr.post.freeBalance # tr.pre.freeBalance

\* C28: when the two deposits are in different assets the decrement has two
\* entries, one per asset: under the initiator's asset the app initiator's
\* signer alone, with initiatorDeposit, and under the responder's asset the
\* app responder's signer alone, with responderDeposit, whichever of the two
\* is multisigOwners[0]; where the transition succeeds those two balances
\* have gone down by those deposits and every other balance is as it was.
C28_DifferentAssetsDecrement ==
  LET p == tr.proposal
      it == InitiatorToken(p)
      rt == ResponderToken(p)
      dec == computeDecrement(tr.pre, p)
  IN (tr.applied /\ it # rt) =>
       /\ DOMAIN dec = {it, rt}
       /\ DOMAIN dec[it] = {AppInitiatorFb(p)}
       /\ dec[it][AppInitiatorFb(p)] = p.initiatorDeposit
       /\ DOMAIN dec[rt] = {AppResponderFb(p)}
       /\ dec[rt][AppResponderFb(p)] = p.responderDeposit
       /\ tr.ok =>
            \A t \in Tokens : \A o \in Owners :
              getBalance(tr.post, t, o) =
                getBalance(tr.pre, t, o)
                  - (IF t = it /\ o = AppInitiatorFb(p)
                     THEN p.initiatorDeposit
                     ELSE IF t = rt /\ o = AppResponderFb(p)
                     THEN p.responderDeposit
                     ELSE 0)

C28_Witness ==
  /\ tr.applied /\ tr.ok
  /\ InitiatorToken(tr.proposal) # ResponderToken(tr.proposal)
  /\ AppInitiatorFb(tr.proposal) = multisigOwners[2]
  /\ tr.proposal.initiatorDeposit = 2 /\ tr.proposal.responderDeposit = 1
  /\ getBalance(tr.post, InitiatorToken(tr.proposal), multisigOwners[2])
       = getBalance(tr.pre, InitiatorToken(tr.proposal), multisigOwners[2]) - 2
  /\ getBalance(tr.post, InitiatorToken(tr.proposal), multisigOwners[1])
       = getBalance(tr.pre, InitiatorToken(tr.proposal), multisigOwners[1])

NonNegative(channel) ==
  \A t \in DOMAIN channel.freeBalance.state :
    \A o \in DOMAIN channel.freeBalance.state[t] :
      channel.freeBalance.state[t][o] >= 0

\* C29: through every sequence of installs no owner's free balance in any
\* asset is negative, in the stored channels and in the channels the engines
\* compute; a run on a present channel that holds the proposal and covers
\* both deposits gets past the sufficiency checks and the transition, and a
\* depositor whose deposit is its entire balance in the asset is left with
\* exactly 0 there.
C29_BalancesNeverNegative ==
  /\ \A o \in Owners : NonNegative(store[o])
  /\ \A k \in DOMAIN Engines :
       LET e == Engines[k]
           p == params.proposal
       IN /\ NonNegative(e.pre) /\ NonNegative(e.after)
          /\ (/\ e.pc # "idle"
              /\ e.pre # NoChannel
              /\ p.identityHash \in DOMAIN e.pre.proposedAppInstances
              /\ CoversBothDeposits(e.pre, p)) =>
               /\ e.after # NoChannel
               /\ Emitted(e, "OP_VALIDATE")
               /\ getBalance(e.pre, InitiatorToken(p), AppInitiatorFb(p))
                    = p.initiatorDeposit =>
                    getBalance(e.after, InitiatorToken(p), AppInitiatorFb(p))
                      = 0
               /\ getBalance(e.pre, ResponderToken(p), AppResponderFb(p))
                    = p.responderDeposit =>
                    getBalance(e.after, ResponderToken(p), AppResponderFb(p))
                      = 0

C29_Witness ==
  /\ ini.pc = "done" /\ rsp.pc = "done"
  /\ params.proposal.initiatorDeposit > 0
  /\ getBalance(ini.pre, InitiatorToken(params.proposal),
                AppInitiatorFb(params.proposal))
       = params.proposal.initiatorDeposit
  /\ \A o \in Owners :
       getBalance(store[o], InitiatorToken(params.proposal),
                  AppInitiatorFb(params.proposal)) = 0

\* C30: with a deposit of 0 on one side or on both, a run of either role on
\* a present channel that holds the proposal and covers the other deposit
\* gets past the sufficiency checks and the transition to OP_VALIDATE, the
\* channel it computes has the free-balance version number of the pre
\* channel plus 1, and once both roles are done both stores hold that
\* version and the app.
C30_ZeroDepositCompletes ==
  LET p == params.proposal
      zero == p.initiatorDeposit = 0 \/ p.responderDeposit = 0
  IN /\ \A k \in DOMAIN Engines :
          LET e == Engines[k]
          IN (/\ zero
              /\ e.pc # "idle"
              /\ e.pre # NoChannel
              /\ p.identityHash \in DOMAIN e.pre.proposedAppInstances
              /\ CoversBothDeposits(e.pre, p)) =>
               /\ Emitted(e, "OP_VALIDATE")
               /\ e.after.freeBalance.latestVersionNumber
                    = e.pre.freeBalance.latestVersionNumber + 1
               /\ e.pc = "error" =>
                    e.error \notin {"InsufficientFunds", "AppNotProposed"}
     /\ (zero /\ ini.pc = "done" /\ rsp.pc = "done") =>
          \A o \in Owners :
            /\ store[o].freeBalance.latestVersionNumber
                 = ini.pre.freeBalance.latestVersionNumber + 1
            /\ p.identityHash \in DOMAIN store[o].appInstances

C30_Witness ==
  /\ ini.pc = "done" /\ rsp.pc = "done"
  /\ params.proposal.initiatorDeposit = 0
  /\ params.proposal.responderDeposit = 0
  /\ \A o \in Owners :
       /\ store[o].freeBalance.latestVersionNumber
            = ini.pre.freeBalance.latestVersionNumber + 1
       /\ store[o].freeBalance.state = ini.pre.freeBalance.state
       /\ 3 \in DOMAIN store[o].appInstances

-----------------------------------------------------------------------------
(* The messages of the two roles *)

\* the messages a role has handed to the transport with the given opcode
Messages(e, op) ==
  {e.requests[i].msg : i \in {j \in DOMAIN e.requests : e.requests[j].op = op}}

\* C31: the initiator's IO_SEND_AND_WAIT message is addressed to the
\* responder, with seq = 1, the params of the run and the initiator's own
\* signature; the responder's IO_SEND reply is addressed to the initiator,
\* with seq = UNASSIGNED_SEQ_NO, the responder's own signature and the
\* processID of the message it answers
C31_MessageFields ==
  /\ \A m \in Messages(ini, "IO_SEND_AND_WAIT") :
       /\ m.to = params.responderIdentifier
       /\ m.to = IdentifierOf(Other(ini.me))
       /\ m.seq = 1
       /\ m.params = params
       /\ m.protocol = "install"
       /\ m.signature = ini.mySig
       /\ m.signature = Sign(ini.me, hashToSign(ini.after))
  /\ \A m \in Messages(rsp, "IO_SEND") :
       /\ m.to = params.initiatorIdentifier
       /\ m.to = IdentifierOf(Other(rsp.me))
       /\ m.seq = UNASSIGNED_SEQ_NO
       /\ m.protocol = "install"
       /\ m.signature = rsp.mySig
       /\ m.signature = Sign(rsp.me, hashToSign(rsp.after))
       /\ \E q \in Messages(ini, "IO_SEND_AND_WAIT") :
            q.processID = m.processID

\* the second exchange of a channel, started by owner 0xB, has both messages
C31_Witness ==
  /\ runs = 2
  /\ ini.me = "0xB"
  /\ Messages(ini, "IO_SEND_AND_WAIT") # {}
  /\ Messages(rsp, "IO_SEND") # {}

\* the PERSIST_APP_INSTANCE requests a role has emitted
PersistRequests(e) ==
  {e.requests[i] :
     i \in {j \in DOMAIN e.requests :
              e.requests[j].op = "PERSIST_APP_INSTANCE"}}

\* C32: every PERSIST_APP_INSTANCE request of the install engine, in either
\* role, has type CreateInstance, and the commitment it carries already holds
\* both signatures when the request is emitted: the role's own and its
\* counterparty's, none of the two slots being empty
C32_PersistIsCreateInstanceFullySigned ==
  \A k \in DOMAIN Engines :
    \A r \in PersistRequests(Engines[k]) :
      /\ r.type = "CreateInstance"
      /\ r.commitment.signatures[1] # NoSig
      /\ r.commitment.signatures[2] # NoSig
      /\ {r.commitment.signatures[1], r.commitment.signatures[2]}
           = {Engines[k].mySig, Engines[k].theirSig}
      /\ r.commitment = Engines[k].commitment

\* both roles have emitted their persist request in an exchange started by
\* channel owner 1
C32_Witness ==
  /\ ini.me = multisigOwners[2]
  /\ PersistRequests(ini) # {}
  /\ PersistRequests(rsp) # {}

\* the OP_VALIDATE requests a role has emitted
ValidateRequests(e) ==
  {e.requests[i] :
     i \in {j \in DOMAIN e.requests : e.requests[j].op = "OP_VALIDATE"}}

ProtocolRoles == <<"initiator", "responder">>

\* C33: in both roles the OP_VALIDATE request carries the channel the run
\* started from, in which the app is still proposed and not installed, and
\* not the channel after the install; the new app instance read from the
\* channel computed by the transition; the params of the run; and the role
\* that is executing, initiator in role 0 and responder in role 1
C33_ValidateRequestFields ==
  \A k \in DOMAIN Engines :
    \A r \in ValidateRequests(Engines[k]) :
      LET e == Engines[k]
          h == params.proposal.identityHash
          t == computeInstallStateChannelTransition(e.pre, params.proposal)
      IN /\ r.stateChannel = e.pre
         /\ r.stateChannel # e.after
         /\ h \in DOMAIN r.stateChannel.proposedAppInstances
         /\ h \notin DOMAIN r.stateChannel.appInstances
         /\ t.ok
         /\ e.after = t.channel
         /\ r.appInstance = getAppInstance(t.channel, h)
         /\ r.appInstance = t.channel.appInstances[h]
         /\ r.params = params
         /\ r.role = ProtocolRoles[k]

\* both roles have asked for the validation, the responder on a channel that
\* already holds an app installed by an earlier exchange
C33_Witness ==
  /\ ValidateRequests(ini) # {}
  /\ ValidateRequests(rsp) # {}
  /\ \E r \in ValidateRequests(rsp) :
       /\ r.role = "responder"
       /\ r.stateChannel.appInstances # EmptyObj

-----------------------------------------------------------------------------
(* Successive installs on one channel *)

\* what the proposal takes from the owner's free balance in the token
OwnerDeposit(proposal, token, addr) ==
  (IF AppInitiatorFb(proposal) = addr /\ InitiatorToken(proposal) = token
   THEN proposal.initiatorDeposit ELSE 0)
  + (IF AppResponderFb(proposal) = addr /\ ResponderToken(proposal) = token
     THEN proposal.responderDeposit ELSE 0)

RECURSIVE DebitedBy(_, _, _, _)
\* the sum of the deposits of the apps S of the channel
DebitedBy(S, channel, token, addr) ==
  IF S = {} THEN 0
  ELSE LET h == CHOOSE x \in S : TRUE
       IN OwnerDeposit(channel.appInstances[h], token, addr)
            + DebitedBy(S \ {h}, channel, token, addr)

\* C35: with one protocol run at a time on a channel, each started from the
\* channel the party's previous run persisted, a party's persisted channel
\* never loses an installed app nor a debit: every step keeps each installed
\* app as it was and raises no owner's free balance, and in every state each
\* owner's free balance is the initial one less the deposits of all the apps
\* installed in that channel
C35_InstallsKeepEarlierApps ==
  /\ [](\A o \in Owners : \A t \in Tokens : \A a \in Owners :
          getBalance(store[o], t, a)
            = getBalance(InitialChannel, t, a)
                - DebitedBy(DOMAIN store[o].appInstances, store[o], t, a))
  /\ [][\A o \in Owners :
          /\ \A h \in DOMAIN store[o].appInstances :
               /\ h \in DOMAIN store'[o].appInstances
               /\ store'[o].appInstances[h] = store[o].appInstances[h]
          /\ \A t \in Tokens : \A a \in Owners :
               getBalance(store'[o], t, a) <= getBalance(store[o], t, a)
          /\ store'[o].freeBalance.latestVersionNumber
               >= store[o].freeBalance.latestVersionNumber]_vars

\* two installs of distinct proposals have completed on both sides
C35_Witness ==
  /\ ini.pc = "done" /\ rsp.pc = "done"
  /\ \A o \in Owners : Cardinality(DOMAIN store[o].appInstances) = 2
  /\ store["0xA"] = store["0xB"]

-----------------------------------------------------------------------------
(* The two parties of one exchange *)

\* C36: whenever the initiator has emitted PERSIST_APP_INSTANCE, the
\* responder of the same exchange has had its own PERSIST_APP_INSTANCE
\* answered: it has gone on to its reply, and its stored channel is the one
\* of its request, in which the proposal of the run is installed; whatever
\* an outsider sends, the initiator is never the only party to have
\* persisted the install
C36_InitiatorNeverPersistsAlone ==
  Emitted(ini, "PERSIST_APP_INSTANCE") =>
    /\ rsp.me = ResponderSigner
    /\ Emitted(rsp, "PERSIST_APP_INSTANCE")
    /\ rsp.pc \in {"send", "done"}
    /\ store[rsp.me] = PersistRequest(rsp).channel
    /\ params.appIdentityHash \in DOMAIN store[rsp.me].appInstances

\* the initiator has emitted its persist request and has not had its answer
C36_Witness ==
  /\ ini.pc = "persist"
  /\ Emitted(ini, "PERSIST_APP_INSTANCE")
  /\ params.appIdentityHash \notin DOMAIN store[ini.me].appInstances
  /\ params.appIdentityHash \in DOMAIN store[rsp.me].appInstances

\* C37: when both roles of one exchange succeed, the two parties have passed
\* the same ordered pair of signatures to addSignatures, owner 0's first and
\* owner 1's second, the commitments they persist carry the same signature at
\* index 0 and the same at index 1, and the channels they persist are equal,
\* whichever channel owner initiates
C37_SameCommitmentOnBothSides ==
  \A me \in Owners :
    (ini.me = me /\ ini.pc = "done" /\ rsp.pc = "done") =>
      LET a == PersistRequest(ini)
          b == PersistRequest(rsp)
      IN /\ rsp.me = Other(me)
         /\ ini.sigArgs = rsp.sigArgs
         /\ \A i \in 1..2 :
              /\ ini.sigArgs[i] = Sign(multisigOwners[i], a.commitment.hash)
              /\ a.commitment.signatures[i] = b.commitment.signatures[i]
              /\ a.commitment.signatures[i] = ini.sigArgs[i]
         /\ a.commitment = b.commitment
         /\ a.channel = b.channel
         /\ a.appInstance = b.appInstance

\* an exchange started by channel owner 1 has succeeded on both sides after
\* one started by channel owner 0 did
C37_Witness ==
  /\ ini.me = multisigOwners[2]
  /\ ini.pc = "done" /\ rsp.pc = "done"
  /\ \E h \in DOMAIN store[ini.me].appInstances :
       /\ h # params.appIdentityHash
       /\ store[ini.me].appInstances[h].initiatorIdentifier
            = IdentifierOf(multisigOwners[1])
  /\ PersistRequest(ini).commitment.signatures[2] = ini.mySig
  /\ PersistRequest(rsp).commitment.signatures[1] = rsp.mySig

-----------------------------------------------------------------------------
(* The client's calls to the node *)

\* C34: verifyAppSequenceNumber reports 0 to the node when the read of the
\* most recently installed app has failed with a message that includes
\* "There are no installed AppInstances in this StateChannel"; any other
\* failure of the read ends the call with that failure and the node is not
\* contacted; when the read returns, the appSeqNo of the app it returned,
\* the highest of the channel, is reported; the node is contacted at most
\* once
C34_VerifyAppSequenceNumber ==
  LET read == client.read
      failed == read.thrown # << >>
      noApps == \E i \in DOMAIN read.thrown : read.thrown[i] = NO_INSTALLED_APPS
      past == client.pc \in {"verify", "done"}
              \/ (client.pc = "error" /\ client.error # <<"chan_getStateChannel">>)
  IN /\ Len(client.verified) <= 1
     /\ client.pc \in {"start", "read", "verify"} => client.verified = << >>
     /\ client.pc = "done" => Len(client.verified) = 1
     /\ (past /\ failed /\ noApps) =>
          /\ client.pc # "verify" => client.verified = <<0>>
          /\ client.error # read.thrown
     /\ (past /\ failed /\ ~noApps) =>
          /\ client.pc = "error"
          /\ client.error = read.thrown
          /\ client.verified = << >>
     /\ (past /\ ~failed) =>
          /\ client.pc # "verify" => client.verified = <<read.appSeqNo>>
          /\ read.appSeqNo >= 1
          /\ \E h \in DOMAIN client.sc : client.sc[h] = read.appSeqNo
          /\ \A h \in DOMAIN client.sc : client.sc[h] <= read.appSeqNo

\* 0 has been reported for a channel without apps, whose read has failed
C34_Witness ==
  /\ client.pc = "done"
  /\ client.sc = EmptyObj
  /\ client.read.thrown = <<NO_INSTALLED_APPS>>
  /\ client.verified = <<0>>

\* C38: the withdrawal retry loop is bounded. Each call of
\* retryNodeSubmittedWithdrawal goes on to store a retry count and stores
\* the stored count plus one, without a call of node.withdraw before;
\* node.withdraw is called only with an incremented count below
\* MAX_WITHDRAWAL_RETRIES; the stored count never decreases; at most
\* MAX_WITHDRAWAL_RETRIES - 1 resubmissions are made; and the chain of
\* watchForUserWithdrawal and retryNodeSubmittedWithdrawal comes to an end.
C38_RetryLoopBoundedAndTerminates ==
  /\ [][(client.pc = "retry" /\ client'.pc # "retry") =>
          client'.pc = "retry_store"]_vars
  /\ [][(client.pc = "retry_store" /\ client'.pc # "retry_store") =>
          /\ client.stored # NoWithdrawal
          /\ client'.stored.retry = client.stored.retry + 1
          /\ client'.withdrawn = client.withdrawn]_vars
  /\ [][client'.withdrawn # client.withdrawn =>
          /\ client'.withdrawn = client.withdrawn + 1
          /\ client.pc = "retry_withdraw"
          /\ client.val.retry + 1 < MAX_WITHDRAWAL_RETRIES]_vars
  /\ [][(client.stored # NoWithdrawal /\ client'.stored # NoWithdrawal) =>
          client'.stored.retry >= client.stored.retry]_vars
  /\ [](client.withdrawn <= MAX_WITHDRAWAL_RETRIES - 1)
  /\ <>(client.pc \in {"done", "error"})

\* C39: resubmitActiveWithdrawal does nothing when no withdrawal is stored;
\* throws, with no request to the node and the store as it was, when the
\* stored retry count is MAX_WITHDRAWAL_RETRIES or more; when the node's
\* latest transaction has the to, the value and the data of the stored one,
\* clears the stored withdrawal and returns with no retry; and starts a
\* retry in the remaining case only
C39_ResubmitActiveWithdrawal ==
  [][/\ (client.pc = "resubmit" /\ client.stored = NoWithdrawal) =>
          client' = [client EXCEPT !.pc = "done"]
     /\ (client.pc = "resubmit" /\ client.stored # NoWithdrawal
           /\ client.stored.retry >= MAX_WITHDRAWAL_RETRIES) =>
          client' = [client EXCEPT !.pc = "error",
                                   !.withdrawal = client.stored,
                                   !.error = "Cannot connect client"]
     /\ (client.pc = "resubmit" /\ client.stored # NoWithdrawal
           /\ client.stored.retry < MAX_WITHDRAWAL_RETRIES) =>
          client' = [client EXCEPT !.pc = "resubmit_latest",
                                   !.withdrawal = client.stored]
     /\ client.pc = "resubmit_latest" =>
          LET tx == client'.latest
              expected == client.withdrawal.tx
              same == /\ tx.to = expected.to
                      /\ tx.value.n = expected.value.n
                      /\ tx.data = expected.data
          IN /\ client' = [client EXCEPT
                             !.pc = IF same THEN "resubmit_clear" ELSE "retry",
                             !.latest = tx]
             /\ expected = client.stored.tx
     /\ client.pc = "resubmit_clear" =>
          client' = [client EXCEPT !.pc = "done", !.stored = NoWithdrawal]
     /\ (client.pc \in {"resubmit", "resubmit_latest", "resubmit_clear"}
           /\ client'.pc \in {"done", "error"}) =>
          /\ client'.withdrawn = 0
          /\ client'.watches = 0
          /\ client'.val = NoWithdrawal]_vars

\* the stored withdrawal has been cleared because the node's latest
\* transaction carries the same value in another encoding
C39_Witness ==
  /\ client.pc = "done"
  /\ client.withdrawal # NoWithdrawal
  /\ client.stored = NoWithdrawal
  /\ client.latest.value.text # client.withdrawal.tx.value.text
  /\ client.val = NoWithdrawal

\* the requests sent other than the read of the installed apps
OtherRequests ==
  {client.sent[i] : i \in DOMAIN client.sent} \ {"chan_getAppInstances"}

Returned == client.pc \in {"done", "error"}

NotInstalled == client.appInstanceId \notin client.installed

\* C40 as stated: installApp on an installed app throws and sends no
\* chan_install; uninstallApp, takeAction and updateState on an app that is
\* not installed throw and send no request; getAppState and
\* getAppInstanceDetails on an app that is not installed return undefined
\* and send no request.
C40_GuardsSendNoRequest ==
  /\ (client.op = "installApp" /\ ~NotInstalled) =>
       /\ "chan_install" \notin OtherRequests
       /\ Returned => client.pc = "error"
  /\ (client.op \in {"uninstallApp", "takeAction", "updateState"}
        /\ NotInstalled /\ Returned) =>
       /\ client.pc = "error"
       /\ client.sent = << >>
  /\ (client.op \in {"getAppState", "getAppInstanceDetails"}
        /\ NotInstalled /\ Returned) =>
       /\ client.pc = "done"
       /\ client.result = "undefined"
       /\ client.sent = << >>

\* C40 amended: every operation first reads the installed apps with one
\* chan_getAppInstances request and sends nothing else when its guard
\* refuses: installApp on an installed app throws and sends no chan_install;
\* uninstallApp, takeAction and updateState on an app that is not installed
\* throw; getAppState and getAppInstanceDetails on an app that is not
\* installed return undefined once the read is answered and throw when the
\* read fails.
C40_GuardsSendOnlyTheRead ==
  /\ (client.op = "installApp" /\ ~NotInstalled) =>
       /\ client.sent = <<"chan_getAppInstances">>
       /\ Returned =>
            /\ client.pc = "error"
            /\ client.error \in {"App is already installed",
                                 "chan_getAppInstances"}
  /\ (client.op # "installApp" /\ NotInstalled) =>
       /\ client.sent = <<"chan_getAppInstances">>
       /\ OtherRequests = {}
  /\ (client.op \in {"uninstallApp", "takeAction", "updateState"}
        /\ NotInstalled /\ Returned) =>
       /\ client.pc = "error"
       /\ client.error \in {"Could not find installed app",
                            "chan_getAppInstances"}
  /\ (client.op \in {"getAppState", "getAppInstanceDetails"}
        /\ NotInstalled /\ Returned) =>
       IF client.error = "chan_getAppInstances"
       THEN client.pc = "error"
       ELSE client.pc = "done" /\ client.result = "undefined"

\* takeAction on an app that is not installed, in a channel that holds other
\* apps, has thrown after the read of the installed apps
C40_Witness ==
  /\ client.op = "takeAction"
  /\ NotInstalled
  /\ client.installed # {}
  /\ client.pc = "error"
  /\ client.error = "Could not find installed app"
  /\ client.sent = <<"chan_getAppInstances">>

====
